---- MODULE Spec2Model ----
(***************************************************************************)
(* mini-redis: the sharded, hand-over-hand locked store (src/src/store.rs) *)
(* and the request handlers that drive it (src/src/server.rs).             *)
(*                                                                         *)
(* A shard is a singly linked list of nodes behind a sentinel head; every  *)
(* node sits in its own RwLock.  A store operation is a sequence of steps, *)
(* one per lock acquisition: Head (lock the sentinel), Lock (lock the next *)
(* node) and Body (drop the lock two steps behind, examine the node).      *)
(***************************************************************************)
EXTENDS Integers, Sequences, FiniteSets, TLC

\* ------------------------------------------------------------ bounds
MaxKey == 2
NShards == 2
MaxOps == 2
MaxTime == 1
MaxTtl == 0
MaxLen == 2
MaxInt == 12
MaxArity == 6
MaxLine == 5

\* CLEANER_TASK_SAMPLE_SIZE is 20 in the source; here the sample is scaled to the
\* key range, so that the store can hold a full sample of expiring entries.
CLEANER_TASK_SAMPLE_SIZE == 2
CLEANER_TASK_SUCCESS_FACTOR == 4

\* Two tasks run store operations side by side.
Tasks == {1, 2}
Keys == 0..MaxKey
Shards == 0..(NShards - 1)

\* ------------------------------------------------------------ values
\* Option::None of a node's next pointer; node ids are naturals.
Nil == -1

\* Option<V> as a sequence: None is <<>>, Some(v) is <<v>>.
None == << >>
Some(v) == << v >>

\* K::default() of the sentinel head: the empty string, the least key.
DefaultKey == 0

\* DataFrame<T> (dataframe.rs).
Empty == [kind |-> "Empty"]
Plain(d) == [kind |-> "Plain", data |-> d]
Expiring(d, e, ts) == [kind |-> "Expiring", data |-> d, expiration |-> e, timestamp |-> ts]

\* DataFrame::with_expiration: the timestamp is the clock at the call.
with_expiration(d, e, clock) == Expiring(d, e, clock)

\* Mutant: a frame whose age equals its expiration is not yet expired.
has_expired_Strict(df, clock) ==
    IF df.kind = "Expiring" THEN clock - df.timestamp > df.expiration ELSE FALSE

\* DataFrame::has_expired: timestamp.elapsed() >= expiration, for Expiring only.
has_expired(df, clock) ==
    IF df.kind = "Expiring" THEN clock - df.timestamp >= df.expiration ELSE FALSE

\* Value (value.rs).  A String is the sequence of its chars (code points); the
\* handlers over the store model carry a frame's data in place of a String.
NullBulkString == [wire |-> "NullBulkString"]
BulkString(d) == [wire |-> "BulkString", data |-> d]
SimpleString(x) == [wire |-> "SimpleString", text |-> x]
Integer(i) == [wire |-> "Integer", int |-> i]
Error(x) == [wire |-> "Error", text |-> x]
NullArray == [wire |-> "NullArray"]
Array(tokens) == [wire |-> "Array", tokens |-> tokens]

\* Node::default(): the sentinel a shard starts with.
DefaultNode == [key |-> DefaultKey, val |-> Empty, next |-> Nil]

VARIABLES
    heap,     \* node id -> [key, val, next]: the nodes that are still referenced
    task,     \* per task: the frame of the store operation it runs
    nops,     \* number of store operations invoked so far
    eff,      \* history: the atomic map, key -> Option<V>, every operation applied
              \*          to it in one step at the operation's effective point
    lastop,   \* history: key -> kind of the last mutation that took effect on it
    dirty,    \* history: task -> a mutation of its key took effect since its last call
              \*          (a mutator: since its own operation took effect)
    absres,   \* history: task -> what the atomic map answered at the effective point
              \*          (to a scan: the entries unchanged since its call)
    plan,     \* threaded tests: task -> the keys its thread is given
    todo,     \* threaded tests: task -> the keys its thread has not yet passed on
    sweep,    \* the expiration cleaner task: where clean_expired stands
    net,      \* per task: its connection's socket, both directions
    calc,     \* a call of the parser, the formatter or the deducer on its own
    now,      \* Instant::now(): the monotonic clock
    conn      \* per task: the request its connection is serving

\* What the store's own steps leave alone.
env == << plan, todo, sweep, net, calc, now, conn >>

vars == << heap, task, nops, eff, lastop, dirty, absres, plan, todo, sweep, net, calc, now, conn >>

\* The cleaner waits for its next tick.
IdleSweep == [phase |-> "idle", sampled |-> {}, removed |-> 0]

\* A socket on which nothing was sent yet: what the client is going to send and
\* whether it closes the socket afterwards, the bytes under way to the server,
\* the requests sent, the replies written, and whether the server still serves it.
IdleSock == [script |-> << >>, hangup |-> FALSE, inbox |-> << >>, eof |-> FALSE,
             sent |-> << >>, out |-> << >>, open |-> TRUE]

\* No call of a pure function is under way.
NoCalc == [stage |-> "none"]

\* A connection that serves no request.
IdleConn == [phase |-> "idle", cmd |-> "none", key |-> DefaultKey, seen |-> None,
             at |-> 0, reply |-> None]

\* ------------------------------------------------------------ helpers
\* ConcurrentHashtable::get_hash: hasher.finish() is a fixed function of the key for
\* the life of the store (here k div 3, so that neighbouring keys share a shard and
\* lists grow past two nodes), taken mod the shard count.
get_hash(k) == (k \div 3) % NShards

\* Shard::default(): shard s's head is node s.
HeadOf(s) == s

ReadOps == {"get", "for_each"}
WriteOps == {"set", "remove", "remove_if"}

IdleTask == [pc |-> "idle", op |-> "none", key |-> DefaultKey, val |-> Empty,
             cond |-> "always_true", sh |-> 0, prev |-> Nil, cur |-> Nil,
             nxt |-> Nil, res |-> None, visited |-> << >>]

\* The guards a task holds: the node it stands on, its predecessor (mutators only)
\* and, once acquired and before the Body step, the next node.
Held(t) ==
    ({task[t].prev, task[t].cur} \cup (IF task[t].pc = "body" THEN {task[t].nxt} ELSE {}))
        \ {Nil}

Readers(n) == {t \in Tasks : task[t].op \in ReadOps /\ n \in Held(t)}
Writers(n) == {t \in Tasks : task[t].op \in WriteOps /\ n \in Held(t)}

\* Mutant: read() returns while a writer holds the guard.
CanRead_NoWait(n) == TRUE

\* RwLock::read / RwLock::write: when the call can return.
CanRead(n) == Writers(n) = {}
CanWrite(n) == Writers(n) = {} /\ Readers(n) = {}

\* The node ids reachable from n by next pointers, in order.
RECURSIVE Chain(_, _, _)
Chain(h, n, fuel) ==
    IF n = Nil \/ fuel = 0 \/ n \notin DOMAIN h THEN << >>
    ELSE << n >> \o Chain(h, h[n].next, fuel - 1)

\* The nodes of shard s behind its sentinel.
ShardNodes(h, s) == Tail(Chain(h, HeadOf(s), Cardinality(DOMAIN h) + 1))

Range(q) == {q[i] : i \in 1..Len(q)}

\* Arc: a node is freed when neither a list nor a task refers to it.
OtherRefs(t) == UNION {{task[u].prev, task[u].cur, task[u].nxt} : u \in Tasks \ {t}}

Collect(h, refs) ==
    LET live == {HeadOf(s) : s \in Shards}
                \cup UNION {Range(ShardNodes(h, s)) : s \in Shards}
                \cup (refs \cap DOMAIN h)
    IN  [n \in live |-> h[n]]

\* Arc::new: the least id not in use.
FreshId(h) == CHOOSE n \in 0..(NShards + Cardinality(DOMAIN h)) :
                 /\ n \notin DOMAIN h
                 /\ \A m \in 0..(n - 1) : m \in DOMAIN h

\* ------------------------------------------------------------ predicates
\* The closures handed to remove_if: remove's own always_true, and one that
\* looks at the stored frame.
Conds == {"always_true", "data_is_1"}

Holds(c, v) ==
    CASE c = "always_true" -> TRUE
      [] c = "data_is_1" -> v.kind # "Empty" /\ v.data = 1

\* ------------------------------------------------------------ list steps
\* Node { key, val, next } linked behind node p.
InsertAfter(h, p, k, v, nx) ==
    LET new == FreshId(h)
    IN  [n \in DOMAIN h \cup {new} |->
            IF n = new THEN [key |-> k, val |-> v, next |-> nx]
            ELSE IF n = p THEN [h[p] EXCEPT !.next = new]
            ELSE h[n]]

\* Mutant: the spliced node forgets the rest of the list.
Splice_DropsTail(h, p, k, v) == InsertAfter(h, p, k, v, Nil)

\* set_util's splice: the new node takes over prev's next pointer.
Splice(h, p, k, v) == InsertAfter(h, p, k, v, h[p].next)

\* set_util's append behind the last node.
AppendNode(h, c, k, v) == InsertAfter(h, c, k, v, Nil)

\* Mutant: cur.next is cleared but prev.next still points at cur.
Unlink_KeepsPrev(h, p, c) == [h EXCEPT ![c].next = Nil]

\* remove_util's unlink: prev.next takes cur's next, cur.next becomes None.
Unlink(h, p, c) == [h EXCEPT ![p].next = h[c].next, ![c].next = Nil]

\* One call of get_util on the locked node n.
GetUtilStep(h, n, k) ==
    IF h[n].key = k THEN [done |-> TRUE, res |-> Some(h[n].val), next |-> Nil]
    ELSE IF h[n].key > k THEN [done |-> TRUE, res |-> None, next |-> Nil]
    ELSE IF h[n].next = Nil THEN [done |-> TRUE, res |-> None, next |-> Nil]
    ELSE [done |-> FALSE, res |-> None, next |-> h[n].next]

\* Mutant: a node with a smaller key ends the walk instead of being passed.
RemoveUtilStep_NoAdvance(h, p, c, k, cnd) ==
    IF h[c].key = k /\ Holds(cnd, h[c].val)
    THEN [done |-> TRUE, res |-> TRUE, heap |-> Unlink(h, p, c), next |-> Nil]
    ELSE [done |-> TRUE, res |-> FALSE, heap |-> h, next |-> Nil]

\* Mutant: the closure is never asked.
RemoveUtilStep_IgnoresCond(h, p, c, k, cnd) ==
    IF h[c].key > k THEN [done |-> TRUE, res |-> FALSE, heap |-> h, next |-> Nil]
    ELSE IF h[c].key = k
    THEN [done |-> TRUE, res |-> TRUE, heap |-> Unlink(h, p, c), next |-> Nil]
    ELSE IF h[c].next = Nil THEN [done |-> TRUE, res |-> FALSE, heap |-> h, next |-> Nil]
    ELSE [done |-> FALSE, res |-> FALSE, heap |-> h, next |-> h[c].next]

\* Mutant: the closure is asked about the predecessor's value.
RemoveUtilStep_AsksPredecessor(h, p, c, k, cnd) ==
    IF h[c].key > k THEN [done |-> TRUE, res |-> FALSE, heap |-> h, next |-> Nil]
    ELSE IF h[c].key = k THEN
        IF ~Holds(cnd, h[p].val)
        THEN [done |-> TRUE, res |-> FALSE, heap |-> h, next |-> Nil]
        ELSE [done |-> TRUE, res |-> TRUE, heap |-> Unlink(h, p, c), next |-> Nil]
    ELSE IF h[c].next = Nil THEN [done |-> TRUE, res |-> FALSE, heap |-> h, next |-> Nil]
    ELSE [done |-> FALSE, res |-> FALSE, heap |-> h, next |-> h[c].next]

\* One call of remove_util with prev_lock on p and lock on c.
RemoveUtilStep(h, p, c, k, cnd) ==
    IF h[c].key > k THEN [done |-> TRUE, res |-> FALSE, heap |-> h, next |-> Nil]
    ELSE IF h[c].key = k THEN
        IF ~Holds(cnd, h[c].val)
        THEN [done |-> TRUE, res |-> FALSE, heap |-> h, next |-> Nil]
        ELSE [done |-> TRUE, res |-> TRUE, heap |-> Unlink(h, p, c), next |-> Nil]
    ELSE IF h[c].next = Nil THEN [done |-> TRUE, res |-> FALSE, heap |-> h, next |-> Nil]
    ELSE [done |-> FALSE, res |-> FALSE, heap |-> h, next |-> h[c].next]

\* Mutant: an equal key leaves the stored value as it was.
SetUtilStep_KeepsOld(h, p, c, k, v) ==
    IF h[c].key > k THEN [done |-> TRUE, heap |-> Splice(h, p, k, v), next |-> Nil]
    ELSE IF h[c].key = k THEN [done |-> TRUE, heap |-> h, next |-> Nil]
    ELSE IF h[c].next = Nil
    THEN [done |-> TRUE, heap |-> AppendNode(h, c, k, v), next |-> Nil]
    ELSE [done |-> FALSE, heap |-> h, next |-> h[c].next]

\* Mutant: the first comparison is >= where the code has >, so an equal key is
\* spliced in front of the node that already carries it.
SetUtilStep_GreaterOrEqual(h, p, c, k, v) ==
    IF h[c].key >= k THEN [done |-> TRUE, heap |-> Splice(h, p, k, v), next |-> Nil]
    ELSE IF h[c].next = Nil
    THEN [done |-> TRUE, heap |-> AppendNode(h, c, k, v), next |-> Nil]
    ELSE [done |-> FALSE, heap |-> h, next |-> h[c].next]

\* Mutant: nothing is appended when the list ends before a greater key is met.
SetUtilStep_NoAppend(h, p, c, k, v) ==
    IF h[c].key > k THEN [done |-> TRUE, heap |-> Splice(h, p, k, v), next |-> Nil]
    ELSE IF h[c].key = k
    THEN [done |-> TRUE, heap |-> [h EXCEPT ![c].val = v], next |-> Nil]
    ELSE IF h[c].next = Nil THEN [done |-> TRUE, heap |-> h, next |-> Nil]
    ELSE [done |-> FALSE, heap |-> h, next |-> h[c].next]

\* One call of set_util with prev_lock on p and lock on c.
SetUtilStep(h, p, c, k, v) ==
    IF h[c].key > k THEN [done |-> TRUE, heap |-> Splice(h, p, k, v), next |-> Nil]
    ELSE IF h[c].key = k
    THEN [done |-> TRUE, heap |-> [h EXCEPT ![c].val = v], next |-> Nil]
    ELSE IF h[c].next = Nil
    THEN [done |-> TRUE, heap |-> AppendNode(h, c, k, v), next |-> Nil]
    ELSE [done |-> FALSE, heap |-> h, next |-> h[c].next]

\* ------------------------------------------------------------ history
\* The atomic map's remove_if(k, cnd): its answer and its new state.
AbsRemoves(k, cnd) == eff[k] # None /\ Holds(cnd, eff[k][1])

\* Key k changes: the answer of every operation on k, and of every scan, that was
\* invoked before this step (returned or not) is from now on an answer of the past.
MarkDirty(k) ==
    [u \in Tasks |->
        dirty[u] \/ (/\ task[u].pc # "idle"
                     /\ (task[u].op = "for_each" \/ task[u].key = k))]

\* The entries of the atomic map.
Entries == {<< k, eff[k][1] >> : k \in {x \in Keys : eff[x] # None}}

\* The atomic map's answer to a scan: the entries unchanged since the call.
Kept(es) == << "kept", es >>

\* Key k changes: a scan under way keeps the entries of the other keys.
Touched(k) ==
    [u \in Tasks |->
        IF task[u].op = "for_each" /\ task[u].pc \notin {"idle", "done"}
        THEN Kept({e \in absres[u][2] : e[1] # k})
        ELSE absres[u]]

\* ------------------------------------------------------------ task frames
Start(t, o, k, v, c, s) ==
    [IdleTask EXCEPT !.pc = "head", !.op = o, !.key = k, !.val = v, !.cond = c, !.sh = s]

\* Mutant: the operation returns with its guards still held.
Finish_KeepsGuards(t, r) == [task[t] EXCEPT !.pc = "done", !.res = r]

\* The operation returns r: every guard it holds is dropped.
Finish(t, r) ==
    [task[t] EXCEPT !.pc = "done", !.prev = Nil, !.cur = Nil, !.nxt = Nil, !.res = r]

\* A task calls the store when it runs no operation of its own.
CanInvoke(t) == task[t].pc \in {"idle", "done"} /\ nops < MaxOps

\* Task t enters the store operation of frame fr.
Call(t, fr) ==
    /\ task' = [task EXCEPT ![t] = fr]
    /\ dirty' = [dirty EXCEPT ![t] = FALSE]
    /\ absres' = [absres EXCEPT ![t] = IF fr.op = "for_each" THEN Kept(Entries) ELSE None]
    /\ UNCHANGED << heap, eff, lastop >>

\* A caller of the store's API, outside the server, makes one more call.
Invoked(t, fr) ==
    /\ Call(t, fr)
    /\ nops' = nops + 1
    /\ UNCHANGED env

\* ------------------------------------------------------------ Store::get
InvokeGet(t) ==
    /\ CanInvoke(t)
    /\ \E k \in Keys : Invoked(t, Start(t, "get", k, Empty, "always_true", get_hash(k)))

\* Mutant: the walk starts at the sentinel itself.
GetHead_ChecksSentinel(t) ==
    LET hd == HeadOf(task[t].sh) IN
    /\ task[t].pc = "head" /\ task[t].op = "get"
    /\ CanRead(hd)
    /\ task' = [task EXCEPT ![t] = [@ EXCEPT !.pc = "body", !.nxt = hd]]
    /\ UNCHANGED << heap, nops, eff, lastop, dirty, absres >>
    /\ UNCHANGED env

\* Shard::get: read-lock the sentinel; an empty shard answers None.
GetHead(t) ==
    LET hd == HeadOf(task[t].sh) IN
    /\ task[t].pc = "head" /\ task[t].op = "get"
    /\ CanRead(hd)
    /\ IF heap[hd].next = Nil
       THEN /\ task' = [task EXCEPT ![t] = Finish(t, None)]
            /\ absres' = [absres EXCEPT ![t] = eff[task[t].key]]
       ELSE /\ task' = [task EXCEPT ![t] = [@ EXCEPT !.pc = "lock", !.cur = hd,
                                                      !.nxt = heap[hd].next]]
            /\ UNCHANGED absres
    /\ UNCHANGED << heap, nops, eff, lastop, dirty >>
    /\ UNCHANGED env

\* get_util: node.read() while the guard of the previous node is still held.
GetLock(t) ==
    /\ task[t].pc = "lock" /\ task[t].op = "get"
    /\ CanRead(task[t].nxt)
    /\ task' = [task EXCEPT ![t] = [@ EXCEPT !.pc = "body"]]
    /\ UNCHANGED << heap, nops, eff, lastop, dirty, absres >>
    /\ UNCHANGED env

\* get_util: drop(prev_lock), then compare the node's key.
GetBody(t) ==
    LET s == GetUtilStep(heap, task[t].nxt, task[t].key) IN
    /\ task[t].pc = "body" /\ task[t].op = "get"
    /\ IF s.done
       THEN /\ task' = [task EXCEPT ![t] = Finish(t, s.res)]
            /\ absres' = [absres EXCEPT ![t] = eff[task[t].key]]
       ELSE /\ task' = [task EXCEPT ![t] = [@ EXCEPT !.pc = "lock", !.cur = task[t].nxt,
                                                      !.nxt = s.next]]
            /\ UNCHANGED absres
    /\ UNCHANGED << heap, nops, eff, lastop, dirty >>
    /\ UNCHANGED env

\* ------------------------------------------------------------ Store::for_each
InvokeForEach(t) ==
    /\ CanInvoke(t)
    /\ Invoked(t, Start(t, "for_each", DefaultKey, Empty, "always_true", 0))

\* Mutant: on to the next shard with the guard of the last node still held.
NextShard_KeepsLast(t) ==
    IF task[t].sh + 1 < NShards
    THEN [task[t] EXCEPT !.pc = "head", !.sh = task[t].sh + 1,
                         !.prev = Nil, !.cur = task[t].nxt, !.nxt = Nil]
    ELSE Finish(t, None)

\* ConcurrentHashtable::for_each: the shard is done; on to the next one, if any.
NextShard(t) ==
    IF task[t].sh + 1 < NShards
    THEN [task[t] EXCEPT !.pc = "head", !.sh = task[t].sh + 1,
                         !.prev = Nil, !.cur = Nil, !.nxt = Nil]
    ELSE Finish(t, None)

\* Shard::for_each: read-lock the sentinel; an empty shard is skipped.
IterHead(t) ==
    LET hd == HeadOf(task[t].sh) IN
    /\ task[t].pc = "head" /\ task[t].op = "for_each"
    /\ CanRead(hd)
    /\ IF heap[hd].next = Nil
       THEN task' = [task EXCEPT ![t] = NextShard(t)]
       ELSE task' = [task EXCEPT ![t] = [@ EXCEPT !.pc = "lock", !.cur = hd,
                                                   !.nxt = heap[hd].next]]
    /\ UNCHANGED << heap, nops, eff, lastop, dirty, absres >>
    /\ UNCHANGED env

\* Mutant: the visitor is called only for a node that has a successor.
Visit_SkipsLast(seen, nd) ==
    IF nd.next = Nil THEN seen ELSE Append(seen, << nd.key, nd.val >>)

\* iter_util: f(&lock.key, &lock.val) on the locked node.
Visit(seen, nd) == Append(seen, << nd.key, nd.val >>)

\* iter_util: node.read() while the guard of the previous node is still held.
IterLock(t) ==
    /\ task[t].pc = "lock" /\ task[t].op = "for_each"
    /\ CanRead(task[t].nxt)
    /\ task' = [task EXCEPT ![t] = [@ EXCEPT !.pc = "body"]]
    /\ UNCHANGED << heap, nops, eff, lastop, dirty, absres >>
    /\ UNCHANGED env

\* iter_util: drop(prev_lock), call the visitor on (key, val), follow next.
IterBody(t) ==
    LET n == task[t].nxt
        seen == Visit(task[t].visited, heap[n])
    IN
    /\ task[t].pc = "body" /\ task[t].op = "for_each"
    /\ IF heap[n].next = Nil
       THEN task' = [task EXCEPT ![t] = [NextShard(t) EXCEPT !.visited = seen]]
       ELSE task' = [task EXCEPT ![t] = [@ EXCEPT !.pc = "lock", !.cur = n,
                                                   !.nxt = heap[n].next,
                                                   !.visited = seen]]
    /\ UNCHANGED << heap, nops, eff, lastop, dirty, absres >>
    /\ UNCHANGED env

\* ------------------------------------------------------------ Store::remove(_if)
InvokeRemove(t) ==
    /\ CanInvoke(t)
    /\ \E k \in Keys : Invoked(t, Start(t, "remove", k, Empty, "always_true", get_hash(k)))

InvokeRemoveIf(t) ==
    /\ CanInvoke(t)
    /\ \E k \in Keys, c \in Conds \ {"always_true"} :
          Invoked(t, Start(t, "remove_if", k, Empty, c, get_hash(k)))

\* The atomic map's remove_if applied at the step in which the operation returns.
RemoveEffect(t) ==
    LET k == task[t].key IN
    IF AbsRemoves(k, task[t].cond)
    THEN /\ eff' = [eff EXCEPT ![k] = None]
         /\ lastop' = [lastop EXCEPT ![k] = "remove"]
         /\ dirty' = [MarkDirty(k) EXCEPT ![t] = FALSE]
         /\ absres' = [Touched(k) EXCEPT ![t] = << TRUE >>]
    ELSE /\ absres' = [absres EXCEPT ![t] = << FALSE >>]
         /\ dirty' = [dirty EXCEPT ![t] = FALSE]
         /\ UNCHANGED << eff, lastop >>

\* Shard::remove / remove_if: write-lock the sentinel; an empty shard answers false.
RemoveHead(t) ==
    LET hd == HeadOf(task[t].sh) IN
    /\ task[t].pc = "head" /\ task[t].op \in {"remove", "remove_if"}
    /\ CanWrite(hd)
    /\ IF heap[hd].next = Nil
       THEN /\ task' = [task EXCEPT ![t] = Finish(t, << FALSE >>)]
            /\ RemoveEffect(t)
       ELSE /\ task' = [task EXCEPT ![t] = [@ EXCEPT !.pc = "lock", !.cur = hd,
                                                      !.nxt = heap[hd].next]]
            /\ UNCHANGED << eff, lastop, dirty, absres >>
    /\ UNCHANGED << heap, nops >>
    /\ UNCHANGED env

\* node.write() / next.write() while the guards behind it are still held.
RemoveLock(t) ==
    /\ task[t].pc = "lock" /\ task[t].op \in {"remove", "remove_if"}
    /\ CanWrite(task[t].nxt)
    /\ task' = [task EXCEPT ![t] = [@ EXCEPT !.pc = "body"]]
    /\ UNCHANGED << heap, nops, eff, lastop, dirty, absres >>
    /\ UNCHANGED env

\* remove_util: the guard two steps behind is dropped, then the node is examined
\* under its own guard and its predecessor's.
RemoveBody(t) ==
    LET p == task[t].cur
        c == task[t].nxt
        s == RemoveUtilStep(heap, p, c, task[t].key, task[t].cond)
    IN
    /\ task[t].pc = "body" /\ task[t].op \in {"remove", "remove_if"}
    /\ IF s.done
       THEN /\ task' = [task EXCEPT ![t] = Finish(t, << s.res >>)]
            /\ heap' = Collect(s.heap, OtherRefs(t))
            /\ RemoveEffect(t)
       ELSE /\ task' = [task EXCEPT ![t] = [@ EXCEPT !.pc = "lock", !.prev = p,
                                                      !.cur = c, !.nxt = s.next]]
            /\ UNCHANGED << heap, eff, lastop, dirty, absres >>
    /\ UNCHANGED nops
    /\ UNCHANGED env

\* ------------------------------------------------------------ Store::set
\* The store never looks into the data it keeps (only a remove_if closure may), so
\* each task writes its own number: every write is told apart from every other
\* task's and from the frames the store starts with, which hold 0.
InvokeSet(t) ==
    /\ CanInvoke(t)
    /\ \E k \in Keys : Invoked(t, Start(t, "set", k, Plain(t), "always_true", get_hash(k)))

\* The atomic map's set applied at the step in which the operation returns.
SetEffect(t) ==
    LET k == task[t].key IN
    /\ eff' = [eff EXCEPT ![k] = Some(task[t].val)]
    /\ lastop' = [lastop EXCEPT ![k] = IF eff[k] = None THEN "insert" ELSE "overwrite"]
    /\ dirty' = [MarkDirty(k) EXCEPT ![t] = FALSE]
    /\ absres' = [Touched(k) EXCEPT ![t] = None]

\* Shard::set: write-lock the sentinel; an empty shard gets its first node.
SetHead(t) ==
    LET hd == HeadOf(task[t].sh) IN
    /\ task[t].pc = "head" /\ task[t].op = "set"
    /\ CanWrite(hd)
    /\ IF heap[hd].next = Nil
       THEN /\ task' = [task EXCEPT ![t] = Finish(t, None)]
            /\ heap' = AppendNode(heap, hd, task[t].key, task[t].val)
            /\ SetEffect(t)
       ELSE /\ task' = [task EXCEPT ![t] = [@ EXCEPT !.pc = "lock", !.cur = hd,
                                                      !.nxt = heap[hd].next]]
            /\ UNCHANGED << heap, eff, lastop, dirty, absres >>
    /\ UNCHANGED nops
    /\ UNCHANGED env

SetLock(t) ==
    /\ task[t].pc = "lock" /\ task[t].op = "set"
    /\ CanWrite(task[t].nxt)
    /\ task' = [task EXCEPT ![t] = [@ EXCEPT !.pc = "body"]]
    /\ UNCHANGED << heap, nops, eff, lastop, dirty, absres >>
    /\ UNCHANGED env

\* set_util: the guard two steps behind is dropped, then the node is examined
\* under its own guard and its predecessor's.
SetBody(t) ==
    LET p == task[t].cur
        c == task[t].nxt
        s == SetUtilStep(heap, p, c, task[t].key, task[t].val)
    IN
    /\ task[t].pc = "body" /\ task[t].op = "set"
    /\ IF s.done
       THEN /\ task' = [task EXCEPT ![t] = Finish(t, None)]
            /\ heap' = s.heap
            /\ SetEffect(t)
       ELSE /\ task' = [task EXCEPT ![t] = [@ EXCEPT !.pc = "lock", !.prev = p,
                                                      !.cur = c, !.nxt = s.next]]
            /\ UNCHANGED << heap, eff, lastop, dirty, absres >>
    /\ UNCHANGED nops
    /\ UNCHANGED env

\* ------------------------------------------------------------ specification
\* Shard::set run to completion by one task alone.
RECURSIVE SetWalk(_, _, _, _, _)
SetWalk(h, p, c, k, v) ==
    LET s == SetUtilStep(h, p, c, k, v)
    IN  IF s.done THEN s.heap ELSE SetWalk(s.heap, c, s.next, k, v)

SeqSet(h, k, v) ==
    LET hd == HeadOf(get_hash(k))
    IN  IF h[hd].next = Nil THEN AppendNode(h, hd, k, v)
        ELSE SetWalk(h, hd, h[hd].next, k, v)

\* ConcurrentHashtable::with_shards: every shard a lone sentinel.
EmptyStore == [n \in {HeadOf(s) : s \in Shards} |-> DefaultNode]

\* The store after set(k, v) for every key k of ks, one call after the other.
RECURSIVE Populated(_, _)
Populated(ks, v) ==
    IF ks = {} THEN EmptyStore
    ELSE LET k == CHOOSE x \in ks : \A y \in ks : y <= x
         IN  SeqSet(Populated(ks \ {k}, v), k, v)

\* A quiescent store: some keys were set earlier, no operation is in flight.
Init ==
    \E ks \in SUBSET Keys :
        /\ heap = Populated(ks, Plain(0))
        /\ eff = [k \in Keys |-> IF k \in ks THEN Some(Plain(0)) ELSE None]
        /\ lastop = [k \in Keys |-> IF k \in ks THEN "insert" ELSE "init"]
        /\ task = [t \in Tasks |-> IdleTask]
        /\ nops = 0
        /\ dirty = [t \in Tasks |-> FALSE]
        /\ absres = [t \in Tasks |-> None]
        /\ plan = [t \in Tasks |-> {}]
        /\ todo = [t \in Tasks |-> {}]
        /\ sweep = IdleSweep
        /\ net = [t \in Tasks |-> IdleSock]
        /\ calc = NoCalc
        /\ now = 0
        /\ conn = [t \in Tasks |-> IdleConn]

Next ==
    \E t \in Tasks :
        \/ InvokeGet(t) \/ GetHead(t) \/ GetLock(t) \/ GetBody(t)
        \/ InvokeForEach(t) \/ IterHead(t) \/ IterLock(t) \/ IterBody(t)
        \/ InvokeRemove(t) \/ InvokeRemoveIf(t)
        \/ RemoveHead(t) \/ RemoveLock(t) \/ RemoveBody(t)
        \/ InvokeSet(t) \/ SetHead(t) \/ SetLock(t) \/ SetBody(t)

Spec == Init /\ [][Next]_vars

\* The steps of task t inside a store operation it has entered.
Runs(t) ==
    \/ GetHead(t) \/ GetLock(t) \/ GetBody(t)
    \/ IterHead(t) \/ IterLock(t) \/ IterBody(t)
    \/ RemoveHead(t) \/ RemoveLock(t) \/ RemoveBody(t)
    \/ SetHead(t) \/ SetLock(t) \/ SetBody(t)

\* A store in which every key is present, no operation in flight.
InitFull == Init /\ \A k \in Keys : eff[k] # None

\* The scheduler runs every thread that can take a step; a thread blocked in
\* read() or write() runs once the guard is free. No thread has to call the store.
FairStore ==
    /\ InitFull
    /\ [][Next]_vars
    /\ \A t \in Tasks : WF_vars(Runs(t))

\* ------------------------------------------------------------ threaded tests
\* tests::set_multithreaded and tests::remove_multithreaded: scoped threads are
\* handed disjoint sets of keys, each thread passes its keys to the shard one call
\* after the other, and the main thread looks every key up once all have joined.
Partitions == {[t \in Tasks |-> {k \in Keys : f[k] = t}] : f \in [Keys -> Tasks]}

\* The same, with keys that no thread is given (thread 0 is nobody).
PartialPartitions ==
    {[t \in Tasks |-> {k \in Keys : f[k] = t}] : f \in [Keys -> Tasks \cup {0}]}

Joined == \A t \in Tasks : todo[t] = {} /\ task[t].pc \in {"idle", "done"}

\* A thread's next shard.set(k, v): the value names the thread.
WorkerSet(t) ==
    /\ task[t].pc \in {"idle", "done"}
    /\ \E k \in todo[t] :
          /\ Call(t, Start(t, "set", k, Plain(t), "always_true", get_hash(k)))
          /\ todo' = [todo EXCEPT ![t] = @ \ {k}]
    /\ UNCHANGED << nops, plan, sweep, net, calc, now, conn >>

\* A thread's next shard.remove(k).
WorkerRemove(t) ==
    /\ task[t].pc \in {"idle", "done"}
    /\ \E k \in todo[t] :
          /\ Call(t, Start(t, "remove", k, Empty, "always_true", get_hash(k)))
          /\ todo' = [todo EXCEPT ![t] = @ \ {k}]
    /\ UNCHANGED << nops, plan, sweep, net, calc, now, conn >>

\* The main thread, after the scope has joined its threads: shard.get(k).
MainGet ==
    /\ Joined
    /\ \E k \in Keys : Call(1, Start(1, "get", k, Empty, "always_true", get_hash(k)))
    /\ UNCHANGED << nops, env >>

InitThreads(h, contents, plans) ==
    \E pl \in plans :
        /\ heap = h
        /\ eff = contents
        /\ lastop = [k \in Keys |-> IF contents[k] = None THEN "init" ELSE "insert"]
        /\ task = [t \in Tasks |-> IdleTask]
        /\ nops = 0
        /\ dirty = [t \in Tasks |-> FALSE]
        /\ absres = [t \in Tasks |-> None]
        /\ plan = pl
        /\ todo = pl
        /\ sweep = IdleSweep
        /\ net = [t \in Tasks |-> IdleSock]
        /\ calc = NoCalc
        /\ now = 0
        /\ conn = [t \in Tasks |-> IdleConn]

\* set_multithreaded starts from Shard::default().
InitSetMT == InitThreads(EmptyStore, [k \in Keys |-> None], Partitions)

NextSetMT ==
    \/ \E t \in Tasks : WorkerSet(t) \/ SetHead(t) \/ SetLock(t) \/ SetBody(t)
    \/ MainGet
    \/ \E t \in Tasks : GetHead(t) \/ GetLock(t) \/ GetBody(t)

SpecSetMT == InitSetMT /\ [][NextSetMT]_vars

\* remove_multithreaded first sets every key from the main thread; here the threads
\* may also leave some of the keys alone.
InitRemoveMT ==
    InitThreads(Populated(Keys, Plain(0)), [k \in Keys |-> Some(Plain(0))],
                PartialPartitions)

NextRemoveMT ==
    \/ \E t \in Tasks : WorkerRemove(t) \/ RemoveHead(t) \/ RemoveLock(t) \/ RemoveBody(t)
    \/ MainGet
    \/ \E t \in Tasks : GetHead(t) \/ GetLock(t) \/ GetBody(t)

SpecRemoveMT == InitRemoveMT /\ [][NextRemoveMT]_vars

\* ------------------------------------------------------------ server
\* The clock moves on.
Tick ==
    /\ now < MaxTime
    /\ now' = now + 1
    /\ UNCHANGED << heap, task, nops, eff, lastop, dirty, absres, plan, todo, sweep, net, calc, conn >>

\* The keys the clients name in their requests: the two ends of the key range.
ReqKeys == {0, MaxKey}

\* serve / handle_input: the connection is ready for its next request.
CanServe(t) == conn[t].phase \in {"idle", "replied"} /\ nops < MaxOps

\* handle_get: context.store.get(key.clone()).
ServeGet(t) ==
    /\ CanServe(t)
    /\ \E k \in ReqKeys :
          /\ Call(t, Start(t, "get", k, Empty, "always_true", get_hash(k)))
          /\ conn' = [conn EXCEPT ![t] = [IdleConn EXCEPT !.phase = "get", !.cmd = "GET",
                                                          !.key = k]]
    /\ nops' = nops + 1
    /\ UNCHANGED << plan, todo, sweep, net, calc, now >>

\* Mutant: an expired frame is answered with a null and left in the store.
GetAnswered_NoRemove(t) ==
    LET r == task[t].res
        c == [conn[t] EXCEPT !.seen = r, !.at = now]
        out == IF r = None \/ has_expired(r[1], now) THEN NullBulkString
               ELSE BulkString(r[1].data)
    IN
    /\ conn[t].phase = "get" /\ task[t].pc = "done"
    /\ conn' = [conn EXCEPT ![t] = [c EXCEPT !.phase = "replied", !.reply = Some(out)]]
    /\ UNCHANGED << heap, task, eff, lastop, dirty, absres, nops, plan, todo, sweep, net, calc, now >>

\* handle_get: match on what the store returned.  An expired frame is answered
\* with store.remove(key) and a null; the remove is a second store operation.
GetAnswered(t) ==
    LET r == task[t].res
        c == [conn[t] EXCEPT !.seen = r, !.at = now]
    IN
    /\ conn[t].phase = "get" /\ task[t].pc = "done"
    /\ IF r = None
       THEN /\ conn' = [conn EXCEPT ![t] = [c EXCEPT !.phase = "replied",
                                                     !.reply = Some(NullBulkString)]]
            /\ UNCHANGED << heap, task, eff, lastop, dirty, absres >>
       ELSE IF has_expired(r[1], now)
       THEN /\ conn' = [conn EXCEPT ![t] = [c EXCEPT !.phase = "remove"]]
            /\ Call(t, Start(t, "remove", conn[t].key, Empty, "always_true",
                             get_hash(conn[t].key)))
       ELSE IF r[1].kind = "Empty"
       THEN /\ conn' = [conn EXCEPT ![t] = [c EXCEPT !.phase = "panic"]]
            /\ UNCHANGED << heap, task, eff, lastop, dirty, absres >>
       ELSE /\ conn' = [conn EXCEPT ![t] = [c EXCEPT !.phase = "replied",
                                                     !.reply = Some(BulkString(r[1].data))]]
            /\ UNCHANGED << heap, task, eff, lastop, dirty, absres >>
    /\ UNCHANGED << nops, plan, todo, sweep, net, calc, now >>

\* handle_get: the remove has returned; the reply is a null whatever it returned.
GetRemoved(t) ==
    /\ conn[t].phase = "remove" /\ task[t].pc = "done"
    /\ conn' = [conn EXCEPT ![t] = [@ EXCEPT !.phase = "replied",
                                            !.reply = Some(NullBulkString)]]
    /\ UNCHANGED << heap, task, nops, eff, lastop, dirty, absres, plan, todo, sweep, net, calc, now >>

\* The expirations a SET may carry: none, or a duration (PX 0 parses as well).
Ttls == {None} \cup {Some(e) : e \in 0..MaxTtl}

\* handle_set: build the frame (with_expiration reads the clock), then store.set.
ServeSet(t) ==
    /\ CanServe(t)
    /\ \E k \in ReqKeys, ttl \in Ttls :
          LET df == IF ttl = None THEN Plain(t) ELSE with_expiration(t, ttl[1], now)
          IN  /\ Call(t, Start(t, "set", k, df, "always_true", get_hash(k)))
              /\ conn' = [conn EXCEPT ![t] = [IdleConn EXCEPT !.phase = "set",
                                                              !.cmd = "SET", !.key = k]]
    /\ nops' = nops + 1
    /\ UNCHANGED << plan, todo, sweep, net, calc, now >>

\* handle_set: the set has returned; the reply is OK.
SetAnswered(t) ==
    /\ conn[t].phase = "set" /\ task[t].pc = "done"
    /\ conn' = [conn EXCEPT ![t] = [@ EXCEPT !.phase = "replied",
                                            !.reply = Some(SimpleString("OK"))]]
    /\ UNCHANGED << heap, task, nops, eff, lastop, dirty, absres, plan, todo, sweep, net, calc, now >>

\* The frame of an earlier SET k 0 PX 1 served at clock 0.
OldFrame == with_expiration(0, 1, 0)

\* A running server at clock 0: some keys were SET with an expiration, no request
\* is being served.
InitServer ==
    \E ks \in SUBSET ReqKeys :
        /\ heap = Populated(ks, OldFrame)
        /\ eff = [k \in Keys |-> IF k \in ks THEN Some(OldFrame) ELSE None]
        /\ lastop = [k \in Keys |-> IF k \in ks THEN "insert" ELSE "init"]
        /\ task = [t \in Tasks |-> IdleTask]
        /\ nops = 0
        /\ dirty = [t \in Tasks |-> FALSE]
        /\ absres = [t \in Tasks |-> None]
        /\ plan = [t \in Tasks |-> {}]
        /\ todo = [t \in Tasks |-> {}]
        /\ sweep = IdleSweep
        /\ net = [t \in Tasks |-> IdleSock]
        /\ calc = NoCalc
        /\ now = 0
        /\ conn = [t \in Tasks |-> IdleConn]

NextServer ==
    \/ Tick
    \/ \E t \in Tasks :
          \/ ServeGet(t) \/ GetAnswered(t) \/ GetRemoved(t)
          \/ ServeSet(t) \/ SetAnswered(t)
          \/ GetHead(t) \/ GetLock(t) \/ GetBody(t)
          \/ RemoveHead(t) \/ RemoveLock(t) \/ RemoveBody(t)
          \/ SetHead(t) \/ SetLock(t) \/ SetBody(t)

SpecServer == InitServer /\ [][NextServer]_vars

\* ------------------------------------------------------------ remove_if next to set
\* A quiescent store whose entries all satisfy the closure data_is_1.
InitRemoveIf ==
    \E ks \in SUBSET Keys :
        /\ heap = Populated(ks, Plain(1))
        /\ eff = [k \in Keys |-> IF k \in ks THEN Some(Plain(1)) ELSE None]
        /\ lastop = [k \in Keys |-> IF k \in ks THEN "insert" ELSE "init"]
        /\ task = [t \in Tasks |-> IdleTask]
        /\ nops = 0
        /\ dirty = [t \in Tasks |-> FALSE]
        /\ absres = [t \in Tasks |-> None]
        /\ plan = [t \in Tasks |-> {}]
        /\ todo = [t \in Tasks |-> {}]
        /\ sweep = IdleSweep
        /\ net = [t \in Tasks |-> IdleSock]
        /\ calc = NoCalc
        /\ now = 0
        /\ conn = [t \in Tasks |-> IdleConn]

\* remove_if calls and set calls side by side: task 2's set stores a value that the
\* closure rejects, task 1's set one that it accepts.
NextRemoveIf ==
    \E t \in Tasks :
        \/ InvokeRemoveIf(t) \/ RemoveHead(t) \/ RemoveLock(t) \/ RemoveBody(t)
        \/ InvokeSet(t) \/ SetHead(t) \/ SetLock(t) \/ SetBody(t)

SpecRemoveIf == InitRemoveIf /\ [][NextRemoveIf]_vars

\* ------------------------------------------------------------ expiration cleaner
\* The task that spawn_expiration_cleaner_task starts runs its store calls as task 1;
\* task 2 is a client connection.
Cleaner == 1
Client == 2

\* clean_expired's closure: the (key, expiration, timestamp) of every Expiring
\* frame that for_each passed to it.
Candidates(visited) ==
    { << visited[i][1], visited[i][2].expiration, visited[i][2].timestamp >> :
        i \in {j \in DOMAIN visited : visited[j][2].kind = "Expiring"} }

\* choose_multiple(rng, n): n of the candidates, or all of them when there are fewer.
Samples(cands, n) ==
    IF Cardinality(cands) <= n THEN {cands}
    ELSE {c \in SUBSET cands : Cardinality(c) = n}

\* What the cleaner's own steps leave alone.
SweepFrame == << nops, plan, todo, net, calc, now, conn >>

\* ticker.tick() fires, or the loop of clean_expired comes round again: for_each.
SweepScan ==
    /\ sweep.phase \in {"idle", "again"}
    /\ Call(Cleaner, Start(Cleaner, "for_each", DefaultKey, Empty, "always_true", 0))
    /\ sweep' = [IdleSweep EXCEPT !.phase = "scan"]
    /\ UNCHANGED SweepFrame

\* Mutant: whatever was sampled is gone through, however little.
SweepSample_NoMinimum ==
    /\ sweep.phase = "scan" /\ task[Cleaner].pc = "done"
    /\ \E sm \in Samples(Candidates(task[Cleaner].visited), CLEANER_TASK_SAMPLE_SIZE) :
          sweep' = IF sm = {}
                   THEN IdleSweep
                   ELSE [phase |-> "pick", sampled |-> sm, removed |-> 0]
    /\ UNCHANGED << heap, task, eff, lastop, dirty, absres >>
    /\ UNCHANGED SweepFrame

\* for_each has returned: sample; fewer than a full sample ends the tick.
SweepSample ==
    /\ sweep.phase = "scan" /\ task[Cleaner].pc = "done"
    /\ \E sm \in Samples(Candidates(task[Cleaner].visited), CLEANER_TASK_SAMPLE_SIZE) :
          sweep' = IF Cardinality(sm) < CLEANER_TASK_SAMPLE_SIZE
                   THEN IdleSweep
                   ELSE [phase |-> "pick", sampled |-> sm, removed |-> 0]
    /\ UNCHANGED << heap, task, eff, lastop, dirty, absres >>
    /\ UNCHANGED SweepFrame

\* Mutant: the loop goes on while anything at all was sampled.
SweepPick_NoGate ==
    /\ sweep.phase = "pick"
    /\ IF sweep.sampled = {}
       THEN /\ sweep' = [IdleSweep EXCEPT !.phase = "again"]
            /\ UNCHANGED << heap, task, eff, lastop, dirty, absres >>
       ELSE \E c \in sweep.sampled :
               IF c[2] > now - c[3]
               THEN /\ sweep' = [sweep EXCEPT !.sampled = @ \ {c}]
                    /\ UNCHANGED << heap, task, eff, lastop, dirty, absres >>
               ELSE /\ sweep' = [sweep EXCEPT !.sampled = @ \ {c}, !.phase = "remove"]
                    /\ Call(Cleaner, Start(Cleaner, "remove", c[1], Empty, "always_true",
                                           get_hash(c[1])))
    /\ UNCHANGED SweepFrame

\* The for loop over the sample: a triple that is not expired by the clock is
\* skipped, an expired one is answered with store.remove(key).  After the last one,
\* is_done = removed_count <= SAMPLE_SIZE / SUCCESS_FACTOR.
SweepPick ==
    /\ sweep.phase = "pick"
    /\ IF sweep.sampled = {}
       THEN /\ sweep' = IF sweep.removed <=
                            CLEANER_TASK_SAMPLE_SIZE \div CLEANER_TASK_SUCCESS_FACTOR
                         THEN IdleSweep
                         ELSE [IdleSweep EXCEPT !.phase = "again"]
            /\ UNCHANGED << heap, task, eff, lastop, dirty, absres >>
       ELSE \E c \in sweep.sampled :
               IF c[2] > now - c[3]
               THEN /\ sweep' = [sweep EXCEPT !.sampled = @ \ {c}]
                    /\ UNCHANGED << heap, task, eff, lastop, dirty, absres >>
               ELSE /\ sweep' = [sweep EXCEPT !.sampled = @ \ {c}, !.phase = "remove"]
                    /\ Call(Cleaner, Start(Cleaner, "remove", c[1], Empty, "always_true",
                                           get_hash(c[1])))
    /\ UNCHANGED SweepFrame

\* store.remove has returned: removed_count += its answer.
SweepRemoved ==
    /\ sweep.phase = "remove" /\ task[Cleaner].pc = "done"
    /\ sweep' = [sweep EXCEPT !.phase = "pick",
                              !.removed = @ + (IF task[Cleaner].res = << TRUE >> THEN 1 ELSE 0)]
    /\ UNCHANGED << heap, task, eff, lastop, dirty, absres >>
    /\ UNCHANGED SweepFrame

\* The cleaner's steps, its steps inside the store included.
CleanerStep ==
    \/ SweepScan \/ SweepSample \/ SweepPick \/ SweepRemoved
    \/ IterHead(Cleaner) \/ IterLock(Cleaner) \/ IterBody(Cleaner)
    \/ RemoveHead(Cleaner) \/ RemoveLock(Cleaner) \/ RemoveBody(Cleaner)

\* The client connection's steps: SET and GET commands, as in SpecServer.
ClientStep ==
    \/ ServeGet(Client) \/ GetAnswered(Client) \/ GetRemoved(Client)
    \/ ServeSet(Client) \/ SetAnswered(Client)
    \/ GetHead(Client) \/ GetLock(Client) \/ GetBody(Client)
    \/ RemoveHead(Client) \/ RemoveLock(Client) \/ RemoveBody(Client)
    \/ SetHead(Client) \/ SetLock(Client) \/ SetBody(Client)

\* A running server at clock 0 whose store holds entries SET with an expiration,
\* under one of the key sets kss.
InitCleaner(kss) ==
    \E ks \in kss :
        /\ heap = Populated(ks, OldFrame)
        /\ eff = [k \in Keys |-> IF k \in ks THEN Some(OldFrame) ELSE None]
        /\ lastop = [k \in Keys |-> IF k \in ks THEN "insert" ELSE "init"]
        /\ task = [t \in Tasks |-> IdleTask]
        /\ nops = 0
        /\ dirty = [t \in Tasks |-> FALSE]
        /\ absres = [t \in Tasks |-> None]
        /\ plan = [t \in Tasks |-> {}]
        /\ todo = [t \in Tasks |-> {}]
        /\ sweep = IdleSweep
        /\ net = [t \in Tasks |-> IdleSock]
        /\ calc = NoCalc
        /\ now = 0
        /\ conn = [t \in Tasks |-> IdleConn]

\* The store holds at least a full sample of expiring entries.
InitSweeper == InitCleaner({ks \in SUBSET Keys : Cardinality(ks) >= CLEANER_TASK_SAMPLE_SIZE})

NextSweeper == Tick \/ CleanerStep \/ ClientStep

SpecSweeper == InitSweeper /\ [][NextSweeper]_vars

\* The client's steps once its command is under way.
ClientRuns ==
    \/ GetAnswered(Client) \/ GetRemoved(Client) \/ SetAnswered(Client)
    \/ GetHead(Client) \/ GetLock(Client) \/ GetBody(Client)
    \/ RemoveHead(Client) \/ RemoveLock(Client) \/ RemoveBody(Client)
    \/ SetHead(Client) \/ SetLock(Client) \/ SetBody(Client)

\* The client sends its first command.
ClientFirst == nops = 0 /\ (ServeGet(Client) \/ ServeSet(Client))

\* The cleaner at work next to a client that sends one SET or GET.
NextTick == Tick \/ CleanerStep \/ ClientFirst \/ ClientRuns

\* Every key holds an expiring entry.
InitTick == InitCleaner({Keys})

SpecTick == InitTick /\ [][NextTick]_vars

\* The scheduler runs every task that can take a step: the clock itself need not
\* advance, and the client need not send its command.
FairTick ==
    /\ SpecTick
    /\ WF_vars(CleanerStep)
    /\ WF_vars(ClientRuns)

\* What a call of a pure function leaves alone.
CalcFrame == << heap, task, nops, eff, lastop, dirty, absres, plan, todo, sweep, net,
                now, conn >>

\* Sequences over a set, up to a length.
SeqsUpTo(S, n) == UNION {[1..m -> S] : m \in 0..n}

\* ------------------------------------------------------------ bytes and strings
\* The bytes the protocol gives a meaning to.
CRLF == << 13, 10 >>
Tag == [array |-> 42, simple |-> 43, error |-> 45, integer |-> 58, bulk |-> 36]
Minus == << 45 >>
Plus == << 43 >>
IsDigit(b) == b \in 48..57

\* A String's bytes: UTF-8, one byte below U+0080 and two below U+0800 (the model
\* has no char beyond).
RECURSIVE as_bytes(_)
as_bytes(str) ==
    IF str = << >> THEN << >>
    ELSE (IF Head(str) < 128 THEN << Head(str) >>
          ELSE << 192 + (Head(str) \div 64), 128 + (Head(str) % 64) >>)
         \o as_bytes(Tail(str))

\* String::from_utf8: the chars of a byte sequence, or an error if it is not UTF-8.
RECURSIVE from_utf8(_)
from_utf8(b) ==
    IF b = << >> THEN [st |-> "ok", val |-> << >>]
    ELSE IF b[1] < 128
    THEN LET r == from_utf8(Tail(b)) IN
         IF r.st = "ok" THEN [st |-> "ok", val |-> << b[1] >> \o r.val] ELSE r
    ELSE IF b[1] \in 194..223 /\ Len(b) >= 2 /\ b[2] \in 128..191
    THEN LET r == from_utf8(Tail(Tail(b))) IN
         IF r.st = "ok"
         THEN [st |-> "ok", val |-> << (b[1] - 192) * 64 + (b[2] - 128) >> \o r.val]
         ELSE r
    ELSE [st |-> "err"]

\* Display of an unsigned and of a signed integer: decimal digits.
RECURSIVE fmt_nat(_)
fmt_nat(n) == IF n < 10 THEN << 48 + n >> ELSE fmt_nat(n \div 10) \o << 48 + (n % 10) >>

fmt_int(i) == IF i < 0 THEN Minus \o fmt_nat(0 - i) ELSE fmt_nat(i)

\* The number a run of digits denotes.
RECURSIVE digits_val(_)
digits_val(ds) ==
    IF ds = << >> THEN 0 ELSE digits_val(SubSeq(ds, 1, Len(ds) - 1)) * 10 + (ds[Len(ds)] - 48)

\* str::parse::<i64>, ::<i32> (signed) and ::<u64> (unsigned): an optional sign (for
\* an unsigned type only +), then one digit or more and nothing else.  The inputs
\* of this model have few digits, so the overflow error cannot arise.
from_str(str, signed) ==
    LET sign == IF str # << >> /\ (<< str[1] >> = Plus \/ (signed /\ << str[1] >> = Minus))
                THEN << str[1] >> ELSE << >>
        ds == IF sign = << >> THEN str ELSE Tail(str)
    IN  IF ds = << >> \/ \E j \in DOMAIN ds : ~IsDigit(ds[j]) THEN [st |-> "err"]
        ELSE [st |-> "ok", val |-> IF sign = Minus THEN 0 - digits_val(ds) ELSE digits_val(ds)]

\* ------------------------------------------------------------ impl Display for Value
RECURSIVE fmt(_)
RECURSIVE fmt_all(_)
fmt_all(tokens) == IF tokens = << >> THEN << >> ELSE fmt(Head(tokens)) \o fmt_all(Tail(tokens))

fmt(v) ==
    CASE v.wire = "Integer" -> << Tag.integer >> \o fmt_int(v.int) \o CRLF
      [] v.wire = "SimpleString" -> << Tag.simple >> \o as_bytes(v.text) \o CRLF
      [] v.wire = "BulkString" ->
            << Tag.bulk >> \o fmt_nat(Len(as_bytes(v.data))) \o CRLF \o as_bytes(v.data) \o CRLF
      [] v.wire = "Error" -> << Tag.error >> \o as_bytes(v.text) \o CRLF
      [] v.wire = "NullBulkString" -> << Tag.bulk >> \o Minus \o << 49 >> \o CRLF
      [] v.wire = "NullArray" -> << Tag.array >> \o Minus \o << 49 >> \o CRLF
      [] v.wire = "Array" ->
            << Tag.array >> \o fmt_nat(Len(v.tokens)) \o CRLF \o fmt_all(v.tokens)

\* ------------------------------------------------------------ RespParser
\* parse.rs, BUF_SIZE.
BUF_SIZE == 256

\* What a parsing function leaves: a value and the bytes behind the cursor, an
\* io::Error, or a panic of the calling task.
Ok(v, rest) == [st |-> "ok", val |-> v, rest |-> rest]
Err == [st |-> "err"]
Panic == [st |-> "panic"]

\* skip_crlf and the lone stream.next() of parse_len: n bytes are passed over,
\* whatever they are, as far as there are any.
Skip(b, n) == SubSeq(b, n + 1, Len(b))

\* The bytes of b before its first CR: how many there are.
BeforeCr(b) ==
    IF \E j \in DOMAIN b : b[j] = CRLF[1]
    THEN (CHOOSE j \in DOMAIN b : b[j] = CRLF[1] /\ \A i \in 1..(j - 1) : b[i] # CRLF[1]) - 1
    ELSE Len(b)

\* read_until_crlf: the chars up to the first CR LF; every byte is pushed as the
\* char of its own number (byte as char), a CR that no LF follows is pushed with
\* the byte after it, and the end of the input ends the string without an error.
\* The bytes up to the next CR, which the loop pushes one by one, are taken in
\* one go.
RECURSIVE read_until_crlf(_, _, _)
read_until_crlf(b, found_cr, result) ==
    IF b = << >> THEN Ok(result, << >>)
    ELSE IF found_cr /\ b[1] = CRLF[2] THEN Ok(result, Tail(b))
    ELSE IF found_cr THEN read_until_crlf(Tail(b), FALSE, result \o << CRLF[1], b[1] >>)
    ELSE IF BeforeCr(b) = Len(b) THEN Ok(result \o b, << >>)
    ELSE read_until_crlf(Skip(b, BeforeCr(b) + 1), TRUE, result \o SubSeq(b, 1, BeforeCr(b)))

\* parse_len, the while loop: digits and minus signs go to buf; the first other
\* byte is consumed and ends the loop.  More than BUF_SIZE of them overrun buf.
RECURSIVE scan_len(_, _)
scan_len(b, buf) ==
    IF b = << >> THEN Ok(buf, << >>)
    ELSE IF IsDigit(b[1]) \/ << b[1] >> = Minus
    THEN IF Len(buf) = BUF_SIZE THEN Panic ELSE scan_len(Tail(b), buf \o << b[1] >>)
    ELSE Ok(buf, Tail(b))

\* parse_len: the loop, one more byte passed over, then parse::<i32>().
parse_len(b) ==
    LET sc == scan_len(b, << >>) IN
    IF sc.st # "ok" THEN sc
    ELSE LET n == from_str(sc.val, TRUE) IN
         IF n.st = "ok" THEN Ok(n.val, Skip(sc.rest, 1)) ELSE Err

\* parse_bulk_string, the reads: whole buffers of BUF_SIZE bytes, then the rest;
\* read_exact fails on a short input, from_utf8(..).unwrap() panics on a chunk that
\* is not UTF-8 by itself.
RECURSIVE read_chunks(_, _, _)
read_chunks(b, len, string) ==
    LET n == IF len >= BUF_SIZE THEN BUF_SIZE ELSE len IN
    IF len = 0 THEN Ok(string, b)
    ELSE IF Len(b) < n THEN Err
    ELSE LET chunk == from_utf8(SubSeq(b, 1, n)) IN
         IF chunk.st # "ok" THEN Panic
         ELSE read_chunks(Skip(b, n), len - n, string \o chunk.val)

\* parse_integer
parse_integer(b) ==
    LET line == read_until_crlf(b, FALSE, << >>)
        n == from_str(line.val, TRUE)
    IN  IF n.st = "ok" THEN Ok(Integer(n.val), line.rest) ELSE Err

\* parse_simple_string
parse_simple_string(b) ==
    LET line == read_until_crlf(b, FALSE, << >>) IN Ok(SimpleString(line.val), line.rest)

\* parse_error
parse_error(b) ==
    LET r == parse_simple_string(b) IN Ok(Error(r.val.text), r.rest)

\* parse_bulk_string: a length of -1 is the null; any other negative length makes
\* String::with_capacity(len as usize) panic.
parse_bulk_string(b) ==
    LET len == parse_len(b) IN
    IF len.st # "ok" THEN len
    ELSE IF len.val = 0 - 1 THEN Ok(NullBulkString, len.rest)
    ELSE IF len.val < 0 THEN Panic
    ELSE LET r == read_chunks(len.rest, len.val, << >>) IN
         IF r.st # "ok" THEN r ELSE Ok(BulkString(r.val), Skip(r.rest, 2))

RECURSIVE parse(_)
RECURSIVE parse_tokens(_, _, _)

\* parse_array, the for loop: len values, one after the other; the first failure
\* is the array's.
parse_tokens(b, len, vec) ==
    IF len = 0 THEN Ok(Array(vec), b)
    ELSE LET r == parse(b) IN
         IF r.st # "ok" THEN r ELSE parse_tokens(r.rest, len - 1, vec \o << r.val >>)

\* parse_array: a length of -1 is the null; any other negative length makes
\* Vec::with_capacity(len as usize) panic.
parse_array(b) ==
    LET len == parse_len(b) IN
    IF len.st # "ok" THEN len
    ELSE IF len.val = 0 - 1 THEN Ok(NullArray, len.rest)
    ELSE IF len.val < 0 THEN Panic
    ELSE parse_tokens(len.rest, len.val, << >>)

\* RespParser::parse: one value off the front of the input.
parse(b) ==
    IF b = << >> THEN Err
    ELSE CASE b[1] = Tag.array -> parse_array(Tail(b))
           [] b[1] = Tag.integer -> parse_integer(Tail(b))
           [] b[1] = Tag.simple -> parse_simple_string(Tail(b))
           [] b[1] = Tag.bulk -> parse_bulk_string(Tail(b))
           [] b[1] = Tag.error -> parse_error(Tail(b))
           [] OTHER -> Err

\* ------------------------------------------------------------ StandardOperationDeducer
\* Operation (operation.rs).  An expiration is a Duration, here in milliseconds.
Ping == [op |-> "Ping"]
Echo(msg) == [op |-> "Echo", msg |-> msg]
Get(key) == [op |-> "Get", key |-> key]
Set(key, val, expiration) == [op |-> "Set", key |-> key, val |-> val, expiration |-> expiration]
Invalid(msg) == [op |-> "Invalid", msg |-> msg]

\* The words the deducer compares with, as chars.
Word == [ping |-> << 112, 105, 110, 103 >>, echo |-> << 101, 99, 104, 111 >>,
         get |-> << 103, 101, 116 >>, set |-> << 115, 101, 116 >>,
         ex |-> << 101, 120 >>, px |-> << 112, 120 >>]

\* str::to_lowercase and eq_ignore_ascii_case, on the ASCII letters of the model.
to_lowercase(str) == [j \in DOMAIN str |-> IF str[j] \in 65..90 THEN str[j] + 32 ELSE str[j]]
eq_ignore_ascii_case(a, b) == to_lowercase(a) = to_lowercase(b)

IsBulk(v) == v.wire = "BulkString"

\* deduce_echo: all it asks for is a bulk string in second place.
deduce_echo(tokens) ==
    IF Len(tokens) >= 2 /\ IsBulk(tokens[2]) THEN Echo(tokens[2].data)
    ELSE Invalid("Error: Invalid or corrupt input")

\* deduce_get: exactly two bulk strings.
deduce_get(tokens) ==
    IF Len(tokens) = 2 /\ \A j \in 1..2 : IsBulk(tokens[j]) THEN Get(tokens[2].data)
    ELSE Invalid("Invalid syntax for GET operation")

\* deduce_set: exactly three bulk strings, or exactly five of which the fourth is
\* ex or px in any case and the fifth parses as u64.
deduce_set(tokens) ==
    IF Len(tokens) = 3 /\ \A j \in 1..3 : IsBulk(tokens[j])
    THEN Set(tokens[2].data, tokens[3].data, None)
    ELSE IF /\ Len(tokens) = 5 /\ \A j \in 1..5 : IsBulk(tokens[j])
            /\ \/ eq_ignore_ascii_case(tokens[4].data, Word.ex)
               \/ eq_ignore_ascii_case(tokens[4].data, Word.px)
            /\ from_str(tokens[5].data, FALSE).st = "ok"
    THEN LET n == from_str(tokens[5].data, FALSE).val IN
         Set(tokens[2].data, tokens[3].data,
             Some(IF eq_ignore_ascii_case(tokens[4].data, Word.ex) THEN n * 1000 ELSE n))
    ELSE Invalid("Invalid syntax for SET operation")

\* deduce_operation: ping is taken as it comes, whatever follows it.
deduce_operation(input) ==
    IF input.wire = "Array"
    THEN IF input.tokens # << >> /\ IsBulk(input.tokens[1])
         THEN LET op == to_lowercase(input.tokens[1].data) IN
              CASE op = Word.ping -> Ping
                [] op = Word.echo -> deduce_echo(input.tokens)
                [] op = Word.get -> deduce_get(input.tokens)
                [] op = Word.set -> deduce_set(input.tokens)
                [] OTHER -> Invalid(<< "Error: Unkown operation", op >>)
         ELSE Invalid("Error: Invalid or corrupt input")
    ELSE Invalid("Error: Invalid or corrupt input")

\* Command names as clients write them: ping, PING, Echo, get, SET, and one that
\* is no command (zap).
Names == {Word.ping, << 80, 73, 78, 71 >>, << 69, 99, 104, 111 >>, Word.get,
          << 83, 69, 84 >>, << 122, 97, 112 >>}

\* What follows the name: 0, px, EX and x as bulk strings, and a null.
Args == {BulkString(<< 48 >>), BulkString(Word.px), BulkString(<< 69, 88 >>),
         BulkString(<< 120 >>), NullBulkString}

\* The values handed to the deducer: arrays of a name and up to MaxArity - 1
\* arguments, the empty array, and values that are no array of bulk strings.
Requests ==
    {Array(<< BulkString(n) >> \o a) : n \in Names, a \in SeqsUpTo(Args, MaxArity - 1)}
    \cup {Array(<< >>), Array(<< Integer(1) >>), NullArray, NullBulkString,
          SimpleString(Word.ping), BulkString(Word.ping), Integer(1)}

InitDeduce ==
    /\ calc \in {[stage |-> "value", v |-> v] : v \in Requests}
    /\ heap = EmptyStore
    /\ eff = [k \in Keys |-> None]
    /\ lastop = [k \in Keys |-> "init"]
    /\ task = [t \in Tasks |-> IdleTask]
    /\ nops = 0
    /\ dirty = [t \in Tasks |-> FALSE]
    /\ absres = [t \in Tasks |-> None]
    /\ plan = [t \in Tasks |-> {}]
    /\ todo = [t \in Tasks |-> {}]
    /\ sweep = IdleSweep
    /\ net = [t \in Tasks |-> IdleSock]
    /\ now = 0
    /\ conn = [t \in Tasks |-> IdleConn]

\* context.deducer.deduce_operation(&value)
Deduce ==
    /\ calc.stage = "value"
    /\ calc' = [stage |-> "deduced", v |-> calc.v, op |-> deduce_operation(calc.v)]
    /\ UNCHANGED CalcFrame

NextDeduce == Deduce

SpecDeduce == InitDeduce /\ [][NextDeduce]_vars

\* ------------------------------------------------------------ codec on its own
\* Chars of a text: a and e-acute (U+00E9, two bytes in UTF-8); a bulk string may
\* hold CR and LF as well.
TextChars == {97, 233}
BulkChars == TextChars \cup {CRLF[1], CRLF[2]}

\* Values that are no arrays.
Scalars ==
    {Integer(i) : i \in (0 - MaxInt)..MaxInt}
    \cup {SimpleString(x) : x \in SeqsUpTo(TextChars, MaxLen)}
    \cup {Error(x) : x \in SeqsUpTo(TextChars, MaxLen)}
    \cup {BulkString(x) : x \in SeqsUpTo(BulkChars, MaxLen)}
    \cup {NullBulkString, NullArray}

\* Arrays: of a few scalars, and of arrays of them.
Items == {Integer(0 - 1), SimpleString(<< 97 >>), BulkString(<< >>), BulkString(CRLF),
          NullBulkString, NullArray}
FlatArrays == {Array(x) : x \in SeqsUpTo(Items, MaxLen)}
NestedArrays ==
    {Array(x) : x \in SeqsUpTo({Array(<< >>), Array(<< BulkString(CRLF) >>), Integer(0 - 1)},
                               MaxLen)}

WireValues == Scalars \cup FlatArrays \cup NestedArrays

\* Some value is about to be written.
InitCodec ==
    /\ calc \in {[stage |-> "value", v |-> v] : v \in WireValues}
    /\ heap = EmptyStore
    /\ eff = [k \in Keys |-> None]
    /\ lastop = [k \in Keys |-> "init"]
    /\ task = [t \in Tasks |-> IdleTask]
    /\ nops = 0
    /\ dirty = [t \in Tasks |-> FALSE]
    /\ absres = [t \in Tasks |-> None]
    /\ plan = [t \in Tasks |-> {}]
    /\ todo = [t \in Tasks |-> {}]
    /\ sweep = IdleSweep
    /\ net = [t \in Tasks |-> IdleSock]
    /\ now = 0
    /\ conn = [t \in Tasks |-> IdleConn]

\* write!(buf, "{}", value)
Format ==
    /\ calc.stage = "value"
    /\ calc' = [stage |-> "bytes", v |-> calc.v, bytes |-> fmt(calc.v)]
    /\ UNCHANGED CalcFrame

\* parser.parse(&mut Cursor::new(bytes))
Parse ==
    /\ calc.stage = "bytes"
    /\ calc' = [stage |-> "parsed", v |-> calc.v, bytes |-> calc.bytes,
                res |-> parse(calc.bytes)]
    /\ UNCHANGED CalcFrame

NextCodec == Format \/ Parse

SpecCodec == InitCodec /\ [][NextCodec]_vars

\* ------------------------------------------------------------ parser on its own
\* Lines as a peer may send them: a tag of a simple string, an error or an
\* integer, then up to MaxLine bytes out of CR, LF and the digit 1.
Lines ==
    { [kind |-> "line", bytes |-> << tag >> \o body] :
        tag \in {Tag.simple, Tag.error, Tag.integer},
        body \in SeqsUpTo({CRLF[1], CRLF[2], 49}, MaxLine) }

\* Headers of a bulk string or an array with a length of zero or below, followed
\* by nothing, by an empty line or by a line of one char.
Headers ==
    { [kind |-> "header", len |-> n, bytes |-> << tag >> \o fmt_int(n) \o CRLF \o rest] :
        tag \in {Tag.bulk, Tag.array},
        n \in (0 - MaxInt)..0,
        rest \in {<< >>, CRLF, << 97 >> \o CRLF} }

\* Some bytes are about to be parsed.
InitWire ==
    /\ calc \in {[stage |-> "raw", in |-> x] : x \in Lines \cup Headers}
    /\ heap = EmptyStore
    /\ eff = [k \in Keys |-> None]
    /\ lastop = [k \in Keys |-> "init"]
    /\ task = [t \in Tasks |-> IdleTask]
    /\ nops = 0
    /\ dirty = [t \in Tasks |-> FALSE]
    /\ absres = [t \in Tasks |-> None]
    /\ plan = [t \in Tasks |-> {}]
    /\ todo = [t \in Tasks |-> {}]
    /\ sweep = IdleSweep
    /\ net = [t \in Tasks |-> IdleSock]
    /\ now = 0
    /\ conn = [t \in Tasks |-> IdleConn]

\* parser.parse(&mut Cursor::new(bytes))
ParseBytes ==
    /\ calc.stage = "raw"
    /\ calc' = [stage |-> "read", in |-> calc.in, res |-> parse(calc.in.bytes)]
    /\ UNCHANGED CalcFrame

NextWire == ParseBytes

SpecWire == InitWire /\ [][NextWire]_vars

\* ------------------------------------------------------------ connections
\* read_stream: the buffer one socket read fills, [0u8; 512] in the source, scaled
\* to hold the longest request of the model and a part of the next.
READ_LEN == 48

\* The clients' keys are one digit long and the store of the model names a key
\* by that digit; whatever else the server is given for a key (a cut request
\* leaves it with a NUL) is one more key, the last.
KeyOf(str) ==
    IF Len(str) = 1 /\ str[1] - 48 \in 0..(MaxKey - 1) THEN str[1] - 48 ELSE MaxKey

Chars == [PING |-> << 80, 73, 78, 71 >>, echo |-> << 101, 99, 104, 111 >>,
          GET |-> << 71, 69, 84 >>, SET |-> << 83, 69, 84 >>, ZAP |-> << 90, 65, 80 >>,
          PX |-> << 80, 88 >>, ZZ |-> << 90, 90 >>, zero |-> << 48 >>, x |-> << 120 >>]

\* A request as the client writes it: an array of bulk strings.
Command(words) == fmt(Array([j \in DOMAIN words |-> BulkString(words[j])]))

\* What a client sends.  Commands the server knows, with a digit for a key:
Valid ==
    { [kind |-> "PING", bytes |-> Command(<< Chars.PING >>)],
      [kind |-> "GET", bytes |-> Command(<< Chars.GET, Chars.zero >>)],
      [kind |-> "SET", bytes |-> Command(<< Chars.SET, Chars.zero, Chars.x >>)],
      [kind |-> "SET", bytes |-> Command(<< Chars.SET, Chars.zero, Chars.x, Chars.PX,
                                            Chars.zero >>)] }

\* frames that parse and are no command: an unknown name, a wrong number of
\* arguments, a TTL that is no number, a TTL unit that is none, a value that is
\* no array;
Unknown == [kind |-> "unknown", bytes |-> Command(<< Chars.ZAP >>)]
BadTtl ==
    [kind |-> "ttl", bytes |-> Command(<< Chars.SET, Chars.zero, Chars.x, Chars.PX, Chars.x >>)]
BadUnit ==
    [kind |-> "unit", bytes |-> Command(<< Chars.SET, Chars.zero, Chars.x, Chars.ZZ,
                                           Chars.zero >>)]
NoArray == [kind |-> "scalar", bytes |-> fmt(SimpleString(Chars.PING))]
BadArity ==
    { [kind |-> "arity", bytes |-> Command(words)] :
        words \in { << Chars.GET >>, << Chars.SET, Chars.zero >>, << Chars.echo >>,
                    << Chars.PING, Chars.zero >>, << Chars.echo, Chars.x, Chars.x >> } }
Semantic == {Unknown, BadTtl, BadUnit, NoArray} \cup BadArity

\* and bytes the parser fails on: a tag that is none, a length that is no number,
\* a bulk string that is longer than what was read.
Malformed ==
    { [kind |-> "tag", bytes |-> << 63 >> \o CRLF],
      [kind |-> "length", bytes |-> << Tag.array, 120 >> \o CRLF],
      [kind |-> "eof", bytes |-> << Tag.bulk, 57, 57, 57 >> \o CRLF \o Chars.x] }

\* A String is made of a byte sequence only if it is UTF-8 (one and two byte forms).
IsUtf8(b) ==
    \A j \in DOMAIN b :
        \/ b[j] < 128
        \/ b[j] \in 194..223 /\ j < Len(b) /\ b[j + 1] \in 128..191
        \/ b[j] \in 128..191 /\ j > 1 /\ b[j - 1] \in 194..223

\* read_stream: what the read left in the buffer, the rest of which is still zero.
read_stream(got) ==
    LET buf == got \o [j \in 1..(READ_LEN - Len(got)) |-> 0]
    IN  IF IsUtf8(buf) THEN [st |-> "ok", val |-> buf] ELSE Err

\* The client writes its next request to the socket.
ClientSend(t) ==
    /\ net[t].script # << >> /\ ~net[t].eof
    /\ net' = [net EXCEPT ![t] = [@ EXCEPT !.inbox = @ \o Head(net[t].script).bytes,
                                           !.sent = Append(@, Head(net[t].script).kind),
                                           !.script = Tail(@)]]
    /\ UNCHANGED << heap, task, nops, eff, lastop, dirty, absres, plan, todo, sweep, calc,
                    now, conn >>

\* The client has sent all it had and closes the socket.
ClientClose(t) ==
    /\ net[t].script = << >> /\ ~net[t].eof /\ net[t].hangup
    /\ net' = [net EXCEPT ![t] = [@ EXCEPT !.eof = TRUE]]
    /\ UNCHANGED << heap, task, nops, eff, lastop, dirty, absres, plan, todo, sweep, calc,
                    now, conn >>

\* Mutant: a parser error is answered with an Error and the loop goes on.
Hangup_Replies(t, rest) ==
    /\ net' = [net EXCEPT ![t] = [@ EXCEPT !.inbox = rest]]
    /\ conn' = [conn EXCEPT ![t] = [IdleConn EXCEPT !.phase = "replied", !.cmd = "none",
                                                    !.reply = Some(Error("parse"))]]
    /\ UNCHANGED << heap, task, eff, lastop, dirty, absres >>

\* serve: the loop is left (break on a parser error, or the task panics).
Hangup(t, rest) ==
    /\ net' = [net EXCEPT ![t] = [@ EXCEPT !.inbox = rest, !.open = FALSE]]
    /\ conn' = [conn EXCEPT ![t] = [IdleConn EXCEPT !.phase = "closed"]]
    /\ UNCHANGED << heap, task, eff, lastop, dirty, absres >>

\* handle_input: the operation the deducer made of the value is carried out; GET
\* and SET go to the store, the others have their reply at once.
Dispatch(t, op, rest) ==
    /\ net' = [net EXCEPT ![t] = [@ EXCEPT !.inbox = rest]]
    /\ CASE op.op = "Ping" ->
              /\ conn' = [conn EXCEPT ![t] = [IdleConn EXCEPT !.phase = "replied",
                                 !.cmd = "PING", !.reply = Some(SimpleString("PONG"))]]
              /\ UNCHANGED << heap, task, eff, lastop, dirty, absres >>
         [] op.op = "Echo" ->
              /\ conn' = [conn EXCEPT ![t] = [IdleConn EXCEPT !.phase = "replied",
                                 !.cmd = "ECHO", !.reply = Some(BulkString(op.msg))]]
              /\ UNCHANGED << heap, task, eff, lastop, dirty, absres >>
         [] op.op = "Invalid" ->
              /\ conn' = [conn EXCEPT ![t] = [IdleConn EXCEPT !.phase = "replied",
                                 !.cmd = "INVALID", !.reply = Some(Error(op.msg))]]
              /\ UNCHANGED << heap, task, eff, lastop, dirty, absres >>
         [] op.op = "Get" ->
              /\ conn' = [conn EXCEPT ![t] = [IdleConn EXCEPT !.phase = "get",
                                 !.cmd = "GET", !.key = KeyOf(op.key)]]
              /\ Call(t, Start(t, "get", KeyOf(op.key), Empty, "always_true",
                               get_hash(KeyOf(op.key))))
         [] op.op = "Set" ->
              LET df == IF op.expiration = None THEN Plain(op.val)
                        ELSE with_expiration(op.val, op.expiration[1], now)
              IN  /\ conn' = [conn EXCEPT ![t] = [IdleConn EXCEPT !.phase = "set",
                                     !.cmd = "SET", !.key = KeyOf(op.key)]]
                  /\ Call(t, Start(t, "set", KeyOf(op.key), df, "always_true",
                                   get_hash(KeyOf(op.key))))

\* serve: one turn of the loop up to the store call.  One read takes what the
\* socket has, or a part of it, or nothing once the peer has closed; the parser
\* is given the whole buffer and makes one value of it; what follows that value
\* in the buffer is dropped with the buffer.
Serve(t) ==
    /\ net[t].open /\ conn[t].phase = "idle"
    /\ net[t].inbox # << >> \/ net[t].eof
    /\ \E n \in 0..Len(net[t].inbox) :
          /\ n = 0 <=> net[t].inbox = << >>
          /\ n <= READ_LEN
          /\ LET input == read_stream(SubSeq(net[t].inbox, 1, n))
                 rest == Skip(net[t].inbox, n)
                 token == IF input.st = "ok" THEN parse(input.val) ELSE Panic
             IN  IF token.st = "ok"
                 THEN Dispatch(t, deduce_operation(token.val), rest)
                 ELSE Hangup(t, rest)
    /\ UNCHANGED << nops, plan, todo, sweep, calc, now >>

\* handle_input: stream.write_all(&buf), and the loop comes round.
Write(t) ==
    /\ net[t].open /\ conn[t].phase = "replied"
    /\ net' = [net EXCEPT ![t] = [@ EXCEPT !.out = Append(@, conn[t].reply[1])]]
    /\ conn' = [conn EXCEPT ![t] = [@ EXCEPT !.phase = "idle"]]
    /\ UNCHANGED << heap, task, nops, eff, lastop, dirty, absres, plan, todo, sweep, calc,
                    now >>

\* A frame that an earlier SET 0 a PX 0 left, expired since.
StaleFrame == with_expiration(<< 97 >>, 0, 0)

\* A client that is going to send the requests s and then, if h, to close.
Sock(s, h) == [IdleSock EXCEPT !.script = s, !.hangup = h]

\* Nobody has connected.
NoSock == [IdleSock EXCEPT !.open = FALSE]

\* The cleaner task is left out.
NoSweep == [IdleSweep EXCEPT !.phase = "off"]

\* A running server at clock 1 with the connections socks; its store holds stale
\* entries under one of the key sets kss.
InitConn(socks, kss, sw) ==
    /\ \E ks \in kss :
          /\ heap = Populated(ks, StaleFrame)
          /\ eff = [k \in Keys |-> IF k \in ks THEN Some(StaleFrame) ELSE None]
          /\ lastop = [k \in Keys |-> IF k \in ks THEN "insert" ELSE "init"]
    /\ task = [t \in Tasks |-> IdleTask]
    /\ nops = 0
    /\ dirty = [t \in Tasks |-> FALSE]
    /\ absres = [t \in Tasks |-> None]
    /\ plan = [t \in Tasks |-> {}]
    /\ todo = [t \in Tasks |-> {}]
    /\ sweep = sw
    /\ net \in socks
    /\ calc = NoCalc
    /\ now = 1
    /\ conn = [t \in Tasks |-> IdleConn]

NextConn ==
    \E t \in Tasks :
        \/ ClientSend(t) \/ ClientClose(t) \/ Serve(t) \/ Write(t)
        \/ GetAnswered(t) \/ GetRemoved(t) \/ SetAnswered(t)
        \/ GetHead(t) \/ GetLock(t) \/ GetBody(t)
        \/ RemoveHead(t) \/ RemoveLock(t) \/ RemoveBody(t)
        \/ SetHead(t) \/ SetLock(t) \/ SetBody(t)

\* One client sends up to MaxOps commands, all of them valid, and may close then;
\* the other connection is silent.
Pipelines ==
    { [t \in Tasks |-> IF t = Client THEN Sock(s, h /\ s # << >>) ELSE Sock(<< >>, FALSE)] :
        s \in SeqsUpTo(Valid, MaxOps), h \in BOOLEAN }

InitPipeline == InitConn(Pipelines, SUBSET {0}, NoSweep)

SpecPipeline == InitPipeline /\ [][NextConn]_vars

\* The same client at a server whose store is still empty.
InitFresh == InitConn(Pipelines, {{}}, NoSweep)

SpecFresh == InitFresh /\ [][NextConn]_vars

\* One client sends a frame that is no command and then up to MaxOps - 1 valid
\* commands, and may close then.
Mistakes ==
    { [t \in Tasks |-> IF t = Client THEN Sock(<< b >> \o s, h) ELSE Sock(<< >>, FALSE)] :
        b \in Semantic, s \in SeqsUpTo(Valid, MaxOps - 1), h \in BOOLEAN }

InitMistake == InitConn(Mistakes, SUBSET {0}, NoSweep)

SpecMistake == InitMistake /\ [][NextConn]_vars

\* What ends a connection: bytes that the parser fails on, or the client closing
\* the socket.
Endings == {<< >>} \cup {<< b >> : b \in Malformed}

\* One client sends bytes that the parser fails on, or closes the socket; the
\* other connection sends a GET or a SET.
Breaks ==
    { [t \in Tasks |-> IF t = Client THEN Sock(m, m = << >>) ELSE Sock(<< v >>, FALSE)] :
        m \in Endings, v \in {v \in Valid : Len(v.bytes) < 32 /\ v.kind # "PING"} }

\* A client next to the cleaner, no other connection: it may send a PING before
\* the end.
LoneBreaks ==
    { [t \in Tasks |-> IF t = Client THEN Sock(s \o m, m = << >>) ELSE NoSock] :
        s \in SeqsUpTo({v \in Valid : v.kind = "PING"}, 1), m \in Endings }

InitBroken ==
    \/ InitConn(Breaks, SUBSET {0}, NoSweep)
    \/ InitConn(LoneBreaks, {Keys}, IdleSweep)

NextBroken == CleanerStep \/ NextConn

SpecBroken == InitBroken /\ [][NextBroken]_vars

\* ------------------------------------------------------------ what a shard holds
\* The keys of shard s in list order, the sentinel left out.
ShardKeys(h, s) ==
    LET ns == ShardNodes(h, s) IN [i \in 1..Len(ns) |-> h[ns[i]].key]

\* The value of the first node of k's shard that carries key k.
Lookup(h, k) ==
    LET ns == ShardNodes(h, get_hash(k))
        hits == {i \in 1..Len(ns) : h[ns[i]].key = k}
    IN  IF hits = {} THEN None
        ELSE Some(h[ns[CHOOSE i \in hits : \A j \in hits : i <= j]].val)

\* The store read as a map.
Contents(h) == [k \in Keys |-> Lookup(h, k)]

Returned(t, o) == task[t].pc = "done" /\ task[t].op = o

\* ------------------------------------------------------------ claims
\* C1: once set(k, v) has taken effect, a get(k) during which no set, remove or
\* successful remove_if of k takes effect returns Some(v), whatever happens to
\* other keys meanwhile.
C1_GetAfterSet ==
    \A t \in Tasks :
        (/\ Returned(t, "get")
         /\ ~dirty[t]
         /\ lastop[task[t].key] \in {"insert", "overwrite"})
        => /\ task[t].res # None
           /\ task[t].res = eff[task[t].key]

\* A get returned the frame that a set of this run wrote (task u's own number),
\* and no mutation of the key took effect while the get ran.
C1_Witness ==
    \E t \in Tasks, u \in Tasks :
        /\ Returned(t, "get") /\ ~dirty[t]
        /\ lastop[task[t].key] = "overwrite"
        /\ task[t].res = Some(Plain(u))

\* C2: once remove(k) has taken effect, a get(k) during which no set of k takes
\* effect returns None, wherever k's node sat in the list.
C2_GetAfterRemove ==
    \A t \in Tasks :
        (/\ Returned(t, "get")
         /\ ~dirty[t]
         /\ lastop[task[t].key] = "remove")
        => task[t].res = None

\* The removed key sat in the middle: both its neighbours are still there.
C2_Witness ==
    \E t \in Tasks :
        /\ Returned(t, "get") /\ ~dirty[t]
        /\ task[t].key = 1
        /\ lastop[1] = "remove"
        /\ task[t].res = None
        /\ ShardKeys(heap, get_hash(1)) = << 0, 2 >>

\* The tasks whose mutation of key k returns in this step.
Mutating(k) ==
    {t \in Tasks : /\ task[t].op \in WriteOps /\ task[t].key = k
                   /\ task[t].pc \in {"head", "body"} /\ task'[t].pc = "done"}

\* C3: a step changes what get answers for key k only if it is the final step of a
\* set, remove or remove_if of k itself; and the step in which a remove or
\* remove_if returns false changes no node of the store.
C3_FrameStep ==
    \/ heap' = heap
    \/ /\ \A k \in Keys : Lookup(heap', k) # Lookup(heap, k) => Mutating(k) # {}
       /\ \A t \in Tasks :
             ~(/\ task[t].op \in {"remove", "remove_if"}
               /\ task[t].pc # "done" /\ task'[t].pc = "done"
               /\ task'[t].res = << FALSE >>)

C3_Frame == [][C3_FrameStep]_vars

\* A remove unlinked the middle node and both neighbours are still found.
C3_Witness ==
    \E t \in Tasks :
        /\ Returned(t, "remove") /\ task[t].res = << TRUE >>
        /\ task[t].key = 1
        /\ Lookup(heap, 0) # None /\ Lookup(heap, 2) # None /\ Lookup(heap, 1) = None

\* C4: in every reachable state the keys behind each sentinel ascend strictly.
C4_Ascending ==
    \A s \in Shards :
        LET ks == ShardKeys(heap, s)
        IN  \A i \in 1..(Len(ks) - 1) : ks[i] < ks[i + 1]

\* A set on a key that was present took effect and the shard still holds exactly
\* its three keys.
C4_Witness ==
    \E k \in Keys :
        /\ lastop[k] = "overwrite"
        /\ ShardKeys(heap, get_hash(k)) = << 0, 1, 2 >>
        /\ \E u \in Tasks : Lookup(heap, k) = Some(Plain(u))

\* C7: every operation answers as the atomic map does when the operation is
\* applied to it in the single step in which the operation decides its result,
\* and the list read as a map is that atomic map in every state.
C7_Linearizable ==
    /\ Contents(heap) = eff
    /\ \A t \in Tasks :
          (task[t].pc = "done" /\ task[t].op \in {"get", "set", "remove", "remove_if"})
          => task[t].res = absres[t]

\* A mutation of key k took effect and returned while a get(k) holds a guard
\* further down the same list: the two overlap.
C7_Witness ==
    \E t \in Tasks, u \in Tasks :
        /\ t # u
        /\ task[t].op = "get" /\ task[t].pc = "body" /\ dirty[t]
        /\ task[u].pc = "done" /\ task[u].op \in WriteOps
        /\ task[u].res = << TRUE >>
        /\ task[u].key = task[t].key

C5_NoLostInsert ==
    \A t \in Tasks :
        Returned(t, "get")
        => \E u \in Tasks : task[t].key \in plan[u] /\ task[t].res = Some(Plain(u))

\* Thread 2 put key 1 between thread 1's keys 0 and 2, and the main thread found it.
C5_Witness ==
    /\ plan[1] = {0, 2} /\ plan[2] = {1}
    /\ Returned(1, "get") /\ task[1].key = 1 /\ task[1].res = Some(Plain(2))
    /\ ShardKeys(heap, get_hash(1)) = << 0, 1, 2 >>

\* C6: threads remove pairwise disjoint keys, all set before, side by side; once
\* all have joined, get(k) returns None for every key k given to a thread (and
\* still finds a key that was given to none).
C6_NoLostRemove ==
    \A t \in Tasks :
        Returned(t, "get")
        => IF \E u \in Tasks : task[t].key \in plan[u]
           THEN task[t].res = None
           ELSE task[t].res = Some(Plain(0))

\* Neighbouring nodes went to different threads, and the main thread misses key 1.
C6_Witness ==
    /\ plan[1] = {0, 2} /\ plan[2] = {1}
    /\ Returned(1, "get") /\ task[1].key = 1 /\ task[1].res = None

\* An entry is expired at clock c iff it is Expiring and c - created_at >= expiration.
ExpiredAt(df, c) == df.kind = "Expiring" /\ df.timestamp + df.expiration <= c

\* C9: a GET whose store.get found nothing replies NullBulkString; one that found
\* a frame that is expired when the GET looks at the clock never replies with a
\* value, only with NullBulkString; one that found a Plain or not yet expired frame
\* replies BulkString of its data at once.
C9_GetReply ==
    \A t \in Tasks :
        (conn[t].cmd = "GET" /\ conn[t].phase \in {"remove", "replied", "panic"})
        => LET r == conn[t].seen IN
           IF r = None THEN conn[t].reply = Some(NullBulkString)
           ELSE IF ExpiredAt(r[1], conn[t].at)
           THEN /\ conn[t].phase # "panic"
                /\ conn[t].reply \in {None, Some(NullBulkString)}
                /\ conn[t].phase = "replied" => conn[t].reply = Some(NullBulkString)
           ELSE /\ conn[t].phase = "replied"
                /\ conn[t].reply = Some(BulkString(r[1].data))

\* A GET found a frame whose age is exactly its expiration, and replied null while
\* the entry was gone from the store.
C9_Witness ==
    \E t \in Tasks :
        /\ conn[t].cmd = "GET" /\ conn[t].phase = "replied"
        /\ conn[t].seen # None
        /\ conn[t].seen[1].kind = "Expiring"
        /\ conn[t].at - conn[t].seen[1].timestamp = conn[t].seen[1].expiration
        /\ conn[t].seen[1].expiration > 0
        /\ conn[t].reply = Some(NullBulkString)
        /\ Lookup(heap, conn[t].key) = None

\* C10 (as claimed): the step in which a GET's removal unlinks key k finds a frame
\* under k that is expired at that instant.
C10_RemovalStep ==
    \A t \in Tasks :
        (/\ conn[t].phase = "remove"
         /\ task[t].pc # "done" /\ task'[t].pc = "done"
         /\ task'[t].res = << TRUE >>)
        => /\ Lookup(heap, conn[t].key) # None
           /\ ExpiredAt(Lookup(heap, conn[t].key)[1], now)

C10_GetRemovesOnlyExpired == [][C10_RemovalStep]_vars

\* A GET that found an expired frame has run its removal and replied null.
LazyDone(t) ==
    /\ conn[t].cmd = "GET" /\ conn[t].phase = "replied"
    /\ conn[t].seen # None
    /\ ExpiredAt(conn[t].seen[1], conn[t].at)

\* C11: once a GET(k) that found k expired has replied, and for as long as no
\* mutation of k takes effect after that GET's removal did, k is absent from the
\* store, every get(k) that no mutation overlaps returns None, and every GET(k)
\* served from such a get replies NullBulkString.
C11_LazyExpiration ==
    \A t \in Tasks :
        (LazyDone(t) /\ ~dirty[t])
        => /\ conn[t].reply = Some(NullBulkString)
           /\ Lookup(heap, conn[t].key) = None
           /\ \A u \in Tasks \ {t} :
                 (Returned(u, "get") /\ task[u].key = conn[t].key /\ ~dirty[u])
                 => /\ task[u].res = None
                    /\ (conn[u].cmd = "GET" /\ conn[u].phase = "replied")
                       => conn[u].reply = Some(NullBulkString)

\* One connection's GET removed the expired entry itself; afterwards the other
\* connection's GET of the same key found nothing and replied null.
C11_Witness ==
    \E t \in Tasks, u \in Tasks :
        /\ t # u
        /\ LazyDone(t) /\ ~dirty[t] /\ task[t].op = "remove" /\ task[t].res = << TRUE >>
        /\ Returned(u, "get") /\ task[u].key = conn[t].key /\ ~dirty[u]
        /\ conn[u].cmd = "GET" /\ conn[u].phase = "replied" /\ conn[u].seen = None
        /\ conn[u].reply = Some(NullBulkString)

\* C12 (as claimed): the step in which the cleaner's removal unlinks a key finds a
\* frame under that key that is expired at that instant; an entry that a client
\* SET again after the cleaner sampled it is not deleted.
C12_SweepStep ==
    (/\ sweep.phase = "remove"
     /\ task[Cleaner].pc # "done" /\ task'[Cleaner].pc = "done"
     /\ task'[Cleaner].res = << TRUE >>)
    => /\ Lookup(heap, task[Cleaner].key) # None
       /\ ExpiredAt(Lookup(heap, task[Cleaner].key)[1], now)

C12_SweeperRemovesOnlyExpired == [][C12_SweepStep]_vars

\* C14: whenever the cleaner is inside clean_expired (scanning, sampling, removing,
\* or going round its loop again), it later reaches the loop's exit and waits for
\* the next tick, also while the client runs its SET and GET commands.
C14_TickTerminates == (sweep.phase # "idle") ~> (sweep.phase = "idle")

\* The loop goes round a second time (more than a quarter of the sample was
\* removed) while the client has a SET in flight.
C14_Witness ==
    /\ sweep.phase = "again"
    /\ conn[Client].cmd = "SET" /\ conn[Client].phase = "set"

\* The guards of task t are its own: no other task holds a guard on one of them.
HoldsAlone(t) == \A n \in Held(t) : Writers(n) = {t} /\ Readers(n) = {}

\* C13: in the step in which remove_if(k, p) returns, the task holds, alone, the
\* write guards of the node it examines and of that node's predecessor; it returns
\* true iff k is stored and p holds for the value stored under k in that very
\* state; if true, k is gone after the step; if false, no node has changed.  So a
\* value that a set stored before this step is the one p is asked about, and no
\* set can take effect between p's answer and the unlinking.
C13_RemoveIfStep ==
    \A t \in Tasks :
        (task[t].op = "remove_if" /\ task[t].pc # "done" /\ task'[t].pc = "done")
        => LET k == task[t].key
               stored == Lookup(heap, k)
               removes == stored # None /\ Holds(task[t].cond, stored[1])
           IN  /\ HoldsAlone(t)
               /\ task[t].pc = "body" => {task[t].cur, task[t].nxt} \subseteq Held(t)
               /\ task'[t].res = << removes >>
               /\ removes => Lookup(heap', k) = None
               /\ ~removes => heap' = heap

C13_RemoveIfAtomic == [][C13_RemoveIfStep]_vars

\* A set(k, .) of a value the closure rejects completed first; the remove_if(k, p)
\* that came to the node after it returned false and the fresh value is still there.
C13_Witness ==
    \E t \in Tasks, u \in Tasks :
        /\ t # u
        /\ Returned(t, "remove_if") /\ task[t].res = << FALSE >> /\ ~dirty[t]
        /\ Returned(u, "set") /\ task[u].key = task[t].key /\ ~dirty[u]
        /\ lastop[task[t].key] = "overwrite"
        /\ Lookup(heap, task[t].key) = Some(Plain(u))
        /\ ~Holds(task[t].cond, Plain(u))

\* C20 (as claimed): at every instant every store operation holds guards on at
\* most two nodes, and two held nodes are neighbours in the list.
C20_AtMostTwoLocks ==
    \A t \in Tasks :
        /\ Cardinality(Held(t)) <= 2
        /\ \A m \in Held(t), n \in Held(t) :
              m # n => (heap[m].next = n \/ heap[n].next = m)

\* C19 (as claimed): parsing the formatter's output for a value gives back that
\* value and leaves no byte of the output unread.
C19_RoundTrip ==
    calc.stage = "parsed" => calc.res = Ok(calc.v, << >>)

\* The lengths at which a command is specified.
Arity == [Ping |-> {1}, Echo |-> {2}, Get |-> {2}, Set |-> {3, 5}]

\* C18 (as claimed): for an array of bulk strings, the deducer produces a Ping,
\* Echo, Get or Set only if the array has a length specified for that command;
\* at every other length the result is Invalid.
C18_ArityChecked ==
    (/\ calc.stage = "deduced"
     /\ calc.v.wire = "Array"
     /\ \A j \in DOMAIN calc.v.tokens : IsBulk(calc.v.tokens[j])
     /\ calc.op.op # "Invalid")
    => Len(calc.v.tokens) \in Arity[calc.op.op]

\* What answers a request of a kind.
Answers(kind, reply) ==
    CASE kind = "PING" -> reply = SimpleString("PONG")
      [] kind = "GET" -> reply.wire \in {"BulkString", "NullBulkString"}
      [] kind = "SET" -> reply = SimpleString("OK")
      [] OTHER -> FALSE

\* The server has nothing left to do on connection t, which it still serves.
Drained(t) == net[t].open /\ conn[t].phase = "idle" /\ net[t].inbox = << >>

\* C15: on a connection whose client sends valid commands only, once the server
\* has taken all the bytes and is waiting for more, every request sent has its
\* one reply, in the order of the requests, however the bytes were cut into
\* reads.
C15_OneReplyEach ==
    \A t \in Tasks :
        Drained(t) =>
            /\ Len(net[t].out) = Len(net[t].sent)
            /\ \A j \in DOMAIN net[t].out : Answers(net[t].sent[j], net[t].out[j])

\* C16: on a connection whose first request is a frame that is no command, the
\* first reply is an Error.
C16_InvalidGetsError ==
    \A t \in Tasks :
        (/\ net[t].sent # << >>
         /\ net[t].sent[1] \in {b.kind : b \in Semantic}
         /\ net[t].out # << >>) => net[t].out[1].wire = "Error"

\* Connection t takes its next read in this step, and these are the bytes.
Served(t) == net[t].open /\ conn[t].phase = "idle" /\ conn'[t].phase # "idle"
ReadBy(t) == SubSeq(net[t].inbox, 1, Len(net[t].inbox) - Len(net'[t].inbox))

\* The buffer holding these bytes is a string that the parser fails on.
ParserFails(got) ==
    LET input == read_stream(got) IN input.st = "ok" /\ parse(input.val).st # "ok"

C17_BreakStep ==
    \A t \in Tasks :
        /\ (Served(t) /\ ParserFails(ReadBy(t))) =>
              /\ conn'[t].phase = "closed" /\ ~net'[t].open
              /\ net'[t].out = net[t].out
              /\ heap' = heap /\ eff' = eff /\ task' = task
              /\ \A u \in Tasks \ {t} : net'[u] = net[u] /\ conn'[u] = conn[u]
              /\ sweep' = sweep
        /\ conn[t].phase = "closed" =>
              /\ Held(t) = {}
              /\ conn'[t] = conn[t] /\ task'[t] = task[t] /\ net'[t].out = net[t].out

\* C17: a read that leaves the parser with bytes it fails on (a tag that is none,
\* a length that is no number, a bulk string cut short, the all-zero buffer of a
\* closed socket) ends the connection in that step: no reply is written for it
\* then or later, no store operation is started, the store, the other
\* connection and the cleaner are left as they were, and the ended connection
\* holds no guard that could keep them waiting.
C17_ParseErrorEndsConnection == [][C17_BreakStep]_vars

\* A connection was ended with a request unanswered, and the cleaner is inside
\* a remove.
C17_Witness ==
    /\ conn[Client].phase = "closed"
    /\ Len(net[Client].out) < Len(net[Client].sent)
    /\ sweep.phase = "remove" /\ task[Cleaner].pc = "body"

\* Where the first CR that an LF follows at once stands in b, if there is one.
CrLfAt(b) == {j \in 1..(Len(b) - 1) : b[j] = CRLF[1] /\ b[j + 1] = CRLF[2]}
FirstCrLf(b) == CHOOSE j \in CrLfAt(b) : \A i \in CrLfAt(b) : j <= i

\* C27 (as claimed): a simple string, error or integer line that holds a CR LF
\* is read as the bytes before the first CR LF, and the input is consumed up to
\* and including that pair.
C27_FirstCrLfTerminates ==
    (calc.stage = "read" /\ calc.in.kind = "line" /\ CrLfAt(Tail(calc.in.bytes)) # {}) =>
        LET body == Tail(calc.in.bytes)
            text == SubSeq(body, 1, FirstCrLf(body) - 1)
            rest == Skip(body, FirstCrLf(body) + 1)
            n == from_str(text, TRUE)
        IN  CASE calc.in.bytes[1] = Tag.simple -> calc.res = Ok(SimpleString(text), rest)
              [] calc.in.bytes[1] = Tag.error -> calc.res = Ok(Error(text), rest)
              [] calc.in.bytes[1] = Tag.integer ->
                    IF n.st = "ok" THEN calc.res = Ok(Integer(n.val), rest) ELSE calc.res = Err

\* C28 (as claimed): a bulk string or array header of length 0 gives the empty
\* bulk string or array, of length -1 the null one, and of any other negative
\* length the parser's error value.
C28_NegativeLength ==
    (calc.stage = "read" /\ calc.in.kind = "header") =>
        LET bulk == calc.in.bytes[1] = Tag.bulk IN
        CASE calc.in.len = 0 ->
               calc.res.st = "ok"
               /\ calc.res.val = (IF bulk THEN BulkString(<< >>) ELSE Array(<< >>))
          [] calc.in.len = 0 - 1 ->
               calc.res.st = "ok"
               /\ calc.res.val = (IF bulk THEN NullBulkString ELSE NullArray)
          [] OTHER -> calc.res = Err

\* C26 (as claimed): every Expiring frame in the store has an expiration above
\* zero.
C26_PositiveExpiration ==
    \A n \in DOMAIN heap :
        heap[n].val.kind = "Expiring" => heap[n].val.expiration > 0

\* What the for_each of the cleaner's current iteration found.
Found == Candidates(task[Cleaner].visited)

C25_SweepStep ==
    /\ (sweep.phase = "scan" /\ sweep'.phase # "scan") =>
          /\ heap' = heap
          /\ IF Cardinality(Found) < CLEANER_TASK_SAMPLE_SIZE
             THEN sweep' = IdleSweep
             ELSE /\ sweep'.phase = "pick" /\ sweep'.removed = 0
                  /\ sweep'.sampled \subseteq Found
                  /\ Cardinality(sweep'.sampled) = CLEANER_TASK_SAMPLE_SIZE
    /\ (sweep.phase \notin {"pick", "remove"} /\ sweep'.phase \in {"pick", "remove"}) =>
          sweep.phase = "scan"
    /\ (task'[Cleaner] # task[Cleaner] /\ heap' # heap) => sweep.phase = "remove"
    /\ sweep.phase \in {"pick", "remove"} =>
          sweep.removed + Cardinality(sweep.sampled)
              + (IF sweep.phase = "remove" THEN 1 ELSE 0) <= CLEANER_TASK_SAMPLE_SIZE
    /\ sweep'.removed <= CLEANER_TASK_SAMPLE_SIZE

ShardsOf(n) == {s \in Shards : n = HeadOf(s) \/ n \in Range(ShardNodes(heap, s))}

\* C21: every guard a task holds is on a node of the one shard its operation is
\* in, which for a keyed operation is the shard of its key; between two shards
\* of a for_each, and between two store calls of a task (the GET handler's get
\* and remove, the cleaner's for_each and removes), the task holds no guard.
C21_OneShardAtATime ==
    \A t \in Tasks :
        /\ \A n \in Held(t) : ShardsOf(n) = {task[t].sh}
        /\ (task[t].pc \in {"head", "lock", "body"} /\ task[t].op # "for_each") =>
              task[t].sh = get_hash(task[t].key)
        /\ task[t].pc \in {"idle", "done", "head"} => Held(t) = {}

\* The cleaner's for_each is between two shards: it has visited the entries of
\* the one and is about to lock the head of the next.
C21_Witness ==
    /\ task[Cleaner].op = "for_each" /\ task[Cleaner].pc = "head"
    /\ task[Cleaner].sh > 0 /\ task[Cleaner].visited # << >>
    /\ task[Client].op = "remove" /\ Held(Client) # {}

\* The sentinels.
Heads == {HeadOf(s) : s \in Shards}

\* C24: every shard keeps its sentinel, an Empty frame under the default key
\* that no list has behind its head; no get, for_each, remove or remove_if has
\* a sentinel as the node it locks next and examines; get returns no Empty
\* frame and for_each passes none to its visitor, also for the default key, and
\* the GET handler does not reach its panic.
C24_SentinelIsolated ==
    /\ \A s \in Shards :
          /\ HeadOf(s) \in DOMAIN heap
          /\ heap[HeadOf(s)].key = DefaultKey /\ heap[HeadOf(s)].val = Empty
          /\ Range(ShardNodes(heap, s)) \cap Heads = {}
    /\ \A t \in Tasks :
          /\ task[t].pc \in {"lock", "body"} => task[t].nxt \notin Heads
          /\ Returned(t, "get") => task[t].res # Some(Empty)
          /\ \A j \in DOMAIN task[t].visited : task[t].visited[j][2] # Empty
          /\ conn[t].phase # "panic"

\* A get of the default key has walked a list that lacks it and returned None,
\* and a for_each has passed every stored entry and nothing else.
C24_Witness ==
    \E t, u \in Tasks :
        /\ Returned(t, "get") /\ task[t].key = DefaultKey /\ task[t].res = None
        /\ ShardNodes(heap, get_hash(DefaultKey)) # << >>
        /\ Returned(u, "for_each") /\ task[u].visited # << >>

\* C23: with set, remove and remove_if of another task taking effect during the
\* pass, the keys a for_each has visited within one shard are strictly ascending
\* (no key twice); the node it is about to lock or has locked is linked in the
\* list of the shard it scans; and once it has returned, every entry that the
\* map held at the call and that no mutation has touched since was visited
\* exactly once, with its value.
C23_ScanUnderMutation ==
    \A t \in Tasks :
        task[t].op = "for_each" =>
            LET v == task[t].visited IN
            /\ \A i \in DOMAIN v, j \in DOMAIN v :
                  (i < j /\ get_hash(v[i][1]) = get_hash(v[j][1])) => v[i][1] < v[j][1]
            /\ task[t].pc \in {"lock", "body"} =>
                  task[t].nxt \in Range(ShardNodes(heap, task[t].sh))
            /\ task[t].pc = "done" =>
                  \A e \in absres[t][2] :
                      /\ Cardinality({i \in DOMAIN v : v[i][1] = e[1]}) = 1
                      /\ \E i \in DOMAIN v : v[i] = e

\* A pass has returned during which another task's mutation took effect: it
\* visited an entry that was written after its call, and an entry that nothing
\* touched.
C23_Witness ==
    \E t \in Tasks :
        /\ Returned(t, "for_each")
        /\ absres[t][2] # {}
        /\ \E i \in DOMAIN task[t].visited : task[t].visited[i] \notin absres[t][2]

\* The place of node n in the list of shard s, the sentinel first.
Place(s, n) ==
    LET c == << HeadOf(s) >> \o ShardNodes(heap, s)
    IN  CHOOSE i \in 0..Len(c) : (i = 0 /\ n \notin Range(c)) \/ (i > 0 /\ c[i] = n)

\* A task waits for, or has just taken, a guard: every guard it already holds
\* is on a node of the same list, nearer to the head.
HeadToTail ==
    \A t \in Tasks :
        task[t].pc \in {"lock", "body"} =>
            /\ Place(task[t].sh, task[t].nxt) > 0
            /\ \A n \in Held(t) \ {task[t].nxt} :
                  /\ Place(task[t].sh, n) > 0
                  /\ Place(task[t].sh, n) < Place(task[t].sh, task[t].nxt)

\* C22: under fair scheduling every get, set, remove, remove_if and for_each
\* that was called returns and holds no guard then, whatever the other task
\* runs on the same shard meanwhile; and every guard is acquired further from
\* the head than the guards the task holds.
C22_EveryCallReturns ==
    /\ []HeadToTail
    /\ \A t \in Tasks :
          (task[t].pc \notin {"idle", "done"}) ~> (task[t].pc = "done" /\ Held(t) = {})

\* Two tasks are inside the same list: one waits for a guard the other holds,
\* and the other is itself about to take its next guard.
C22_Witness ==
    \E t \in Tasks, u \in Tasks :
        /\ t # u
        /\ task[t].pc = "lock" /\ task[t].nxt \in Held(u)
        /\ task[u].pc = "lock" /\ task[u].op \in WriteOps
        /\ task[t].sh = task[u].sh

====
